---- MODULE Spec2Model ----
(***************************************************************************)
(* A model of the SauceDemo Playwright suite: the data helpers of          *)
(* utils/TestHelpers.js, the page objects of pages/ and the scenarios of   *)
(* tests/ that drive them.  The web site under test and the two fixture    *)
(* files (fixtures/users.json, fixtures/products.json) are not part of the *)
(* sources; they are modelled from the specification, the README and what  *)
(* the tests assert about them, and every such definition says so.         *)
(*                                                                         *)
(* Text that the code transforms (product names, prices, error messages)   *)
(* is a sequence of one-character strings, so that replace, parseFloat,    *)
(* trim and the text selectors are computed and not assumed.  Credentials  *)
(* are only ever compared for equality and emptiness and stay strings.     *)
(***************************************************************************)
EXTENDS Integers, Sequences, FiniteSets, TLC

VARIABLES
    browser,        \* the browser context: the page shown, the login form, the cart
    submitted,      \* the pair last handed to LoginPage.login, or NoPair
    failed,         \* the scenario ended because a page action raised
    last,           \* the name of the last operation of the scenario
    hist,           \* kinds of the cart operations of this scenario, in order
    testProducts,   \* the products the scenario sampled and its loop index
    call,           \* the last helper call made outside a scenario, or NoCall
    clearing,       \* the last clearCart of the scenario: items before, clicks made
    files,          \* the state of the two fixture files during the run
    workers,        \* parallel run: per worker, the page of its test and whether it raised
    handles,        \* parallel run: per module scope, the pages its page objects drive
    actor,          \* parallel run: the worker that took the last step, and
                    \* what each worker read before that step
    history,        \* navigation run: the locations the back button returns to
    pending,        \* timed run: the next step of the scenario, the page updates
                    \* not yet shown and the counts the scenario read
    heap            \* fixture run: the objects of the worker process, and the
                    \* value the scenario holds

vars == <<browser, submitted, failed, last, hist, testProducts, call, clearing, files,
          workers, handles, actor, history, pending, heap>>

----------------------------------------------------------------------------
(* Bounds of the model. *)

\* getRandomProducts is called with counts from -MaxNegativeCount up to
\* MaxCount.
MaxCount == 7

MaxNegativeCount == 2

\* A scenario on the login page makes at most MaxAttempts login attempts.
MaxAttempts == 3

\* A worker process loads a fixture at most MaxLoads times, its scenarios
\* make at most MaxChanges changes to what they were handed, and
\* getRandomProducts is asked for at most MaxHeldProducts records.
MaxLoads == 2
MaxChanges == 2
MaxHeldProducts == 2

\* The operations by index are called with indices from -1 up to MaxIndex.
MaxIndex == 6

\* currencyToNumber is called with every text of at most MaxLen characters
\* over Alphabet ...
MaxLen == 4

\* ... and with every price "$D+.DD" of at most MaxCents cents.
MaxCents == 3100

\* productNameToDataTest is called with the fixture's names and with every
\* text of at most MaxNameLen characters over NameAlphabet.
MaxNameLen == 4

\* The scenarios run in parallel add and remove the first MaxParallelProducts
\* products of the fixture.
MaxParallelProducts == 2

\* The number of locations the browser's session history keeps for going back.
MaxBack == 2

\* The scenario that goes back and reloads adds and removes the first
\* MaxNavigationProducts products of the fixture.
MaxNavigationProducts == 3

\* Time is counted in units of 100 ms.  The site shows the effect of a click
\* at most MaxLatency units after the click.
MaxLatency == 12

\* The timed scenario samples MaxTimedProducts products.
MaxTimedProducts == 2

\* The fixed waits of the code, in units of 100 ms: waitForTimeout(300) in
\* clickElement, waitForTimeout(500) in addProductToCart, waitForTimeout(300)
\* in the loop of the test, and the timeout of isElementVisible (5000).
ClickSettle == 3

AddSettle == 5

TestDelay == 3

VisibleTimeout == 50

----------------------------------------------------------------------------
(* Characters and JavaScript string functions. *)

Digits == <<"0", "1", "2", "3", "4", "5", "6", "7", "8", "9">>

UpperCase == <<"A", "B", "C", "D", "E", "F", "G", "H", "I", "J", "K", "L", "M",
               "N", "O", "P", "Q", "R", "S", "T", "U", "V", "W", "X", "Y", "Z">>

LowerCase == <<"a", "b", "c", "d", "e", "f", "g", "h", "i", "j", "k", "l", "m",
               "n", "o", "p", "q", "r", "s", "t", "u", "v", "w", "x", "y", "z">>

WhiteSpace == {" ", "\t", "\n"}

IsDigit(c) == \E d \in 1..10 : Digits[d] = c

DigitVal(c) == (CHOOSE d \in 1..10 : Digits[d] = c) - 1

Min(a, b) == IF a < b THEN a ELSE b

Max(a, b) == IF a > b THEN a ELSE b

RECURSIVE Pow10(_)
Pow10(n) == IF n = 0 THEN 1 ELSE 10 * Pow10(n - 1)

\* The position of the first ch in s, 0 when there is none.
IndexOf(s, ch) ==
    IF \E i \in 1..Len(s) : s[i] = ch
    THEN CHOOSE i \in 1..Len(s) : s[i] = ch /\ \A j \in 1..(i - 1) : s[j] # ch
    ELSE 0

\* String.prototype.replace(pattern, "") with a string pattern of one
\* character: the first occurrence is removed, wherever it stands.
replace(s, ch) ==
    LET i == IndexOf(s, ch)
    IN  IF i = 0 THEN s
        ELSE SubSeq(s, 1, i - 1) \o SubSeq(s, i + 1, Len(s))

\* Array.prototype.slice(0, end): a negative end counts from the end.
slice(arr, end) ==
    LET n == Len(arr)
        e == IF end < 0 THEN Max(n + end, 0) ELSE Min(end, n)
    IN  SubSeq(arr, 1, e)

\* The number of digits of s from position i on.
RECURSIVE DigitRun(_, _)
DigitRun(s, i) ==
    IF i <= Len(s) /\ IsDigit(s[i]) THEN 1 + DigitRun(s, i + 1) ELSE 0

\* The value of the n digits of s from position i on.
RECURSIVE DigitsValue(_, _, _)
DigitsValue(s, i, n) ==
    IF n = 0 THEN 0
    ELSE 10 * DigitsValue(s, i, n - 1) + DigitVal(s[i + n - 1])

\* The first position of s at or after i that holds no white space.
RECURSIVE SkipWhiteSpace(_, _)
SkipWhiteSpace(s, i) ==
    IF i <= Len(s) /\ s[i] \in WhiteSpace THEN SkipWhiteSpace(s, i + 1) ELSE i

\* A number is mant / 10^scale, negated when neg, with mant no multiple of
\* ten (so a value has one form; scale is negative for a multiple of ten);
\* NaN is its own value.
NaN == [nan |-> TRUE, neg |-> FALSE, mant |-> 0, scale |-> 0]

RECURSIVE Normal(_, _)
Normal(mant, scale) ==
    IF mant = 0 THEN <<0, 0>>
    ELSE IF mant % 10 = 0 THEN Normal(mant \div 10, scale - 1)
    ELSE <<mant, scale>>

Number(neg, mant, scale) ==
    LET n == Normal(mant, scale)
    IN  [nan |-> FALSE, neg |-> neg, mant |-> n[1], scale |-> n[2]]

\* parseFloat: leading white space is skipped, then the longest prefix that
\* is a decimal literal (sign, digits, fraction, exponent) is converted and
\* the rest is ignored; NaN when no prefix is one.  The value is kept as an
\* exact decimal: the rounding to a double is the same for equal texts and
\* is left out.  The literal "Infinity" is left out: no text of the model
\* holds an "I".
parseFloat(s) ==
    LET p0    == SkipWhiteSpace(s, 1)
        signed == p0 <= Len(s) /\ s[p0] \in {"+", "-"}
        neg   == signed /\ s[p0] = "-"
        p1    == IF signed THEN p0 + 1 ELSE p0
        n1    == DigitRun(s, p1)
        dot   == p1 + n1 <= Len(s) /\ s[p1 + n1] = "."
        n2    == IF dot THEN DigitRun(s, p1 + n1 + 1) ELSE 0
        p2    == IF dot THEN p1 + n1 + 1 + n2 ELSE p1 + n1
        isE   == p2 <= Len(s) /\ s[p2] \in {"e", "E"}
        eSigned == isE /\ p2 + 1 <= Len(s) /\ s[p2 + 1] \in {"+", "-"}
        p3    == IF eSigned THEN p2 + 2 ELSE p2 + 1
        n3    == IF isE THEN DigitRun(s, p3) ELSE 0
        exp   == IF n3 = 0 THEN 0
                 ELSE IF eSigned /\ s[p2 + 1] = "-"
                      THEN 0 - DigitsValue(s, p3, n3)
                      ELSE DigitsValue(s, p3, n3)
        digits == SubSeq(s, p1, p1 + n1 - 1) \o SubSeq(s, p1 + n1 + 1, p1 + n1 + n2)
        mant  == DigitsValue(digits, 1, n1 + n2)
    IN  IF n1 + n2 = 0 THEN NaN ELSE Number(neg, mant, n2 - exp)

----------------------------------------------------------------------------
(* The fixture files.  fixtures/users.json and fixtures/products.json are   *)
(* not among the sources: the records are modelled from the README (three  *)
(* valid users, the invalid and empty-field scenarios, six products) and    *)
(* from the specification's data model.                                      *)

\* "Sauce Labs Backpack"
Name_Backpack ==
    << "S", "a", "u", "c", "e", " ", "L", "a", "b", "s", " ", "B", "a",
       "c", "k", "p", "a", "c", "k" >>

\* "Sauce Labs Bike Light"
Name_BikeLight ==
    << "S", "a", "u", "c", "e", " ", "L", "a", "b", "s", " ", "B", "i",
       "k", "e", " ", "L", "i", "g", "h", "t" >>

\* "Sauce Labs Bolt T-Shirt"
Name_BoltTShirt ==
    << "S", "a", "u", "c", "e", " ", "L", "a", "b", "s", " ", "B", "o",
       "l", "t", " ", "T", "-", "S", "h", "i", "r", "t" >>

\* "Sauce Labs Fleece Jacket"
Name_FleeceJacket ==
    << "S", "a", "u", "c", "e", " ", "L", "a", "b", "s", " ", "F", "l",
       "e", "e", "c", "e", " ", "J", "a", "c", "k", "e", "t" >>

\* "Sauce Labs Onesie"
Name_Onesie ==
    << "S", "a", "u", "c", "e", " ", "L", "a", "b", "s", " ", "O", "n",
       "e", "s", "i", "e" >>

\* "Test.allTheThings() T-Shirt (Red)"
Name_RedTShirt ==
    << "T", "e", "s", "t", ".", "a", "l", "l", "T", "h", "e", "T", "h",
       "i", "n", "g", "s", "(", ")", " ", "T", "-", "S", "h", "i", "r",
       "t", " ", "(", "R", "e", "d", ")" >>

\* "Epic sadface: Username and password do not match any user in this service"
Msg_NoMatch ==
    << "E", "p", "i", "c", " ", "s", "a", "d", "f", "a", "c", "e", ":",
       " ", "U", "s", "e", "r", "n", "a", "m", "e", " ", "a", "n", "d",
       " ", "p", "a", "s", "s", "w", "o", "r", "d", " ", "d", "o", " ",
       "n", "o", "t", " ", "m", "a", "t", "c", "h", " ", "a", "n", "y",
       " ", "u", "s", "e", "r", " ", "i", "n", " ", "t", "h", "i", "s",
       " ", "s", "e", "r", "v", "i", "c", "e" >>

\* "Epic sadface: Username is required"
Msg_UsernameRequired ==
    << "E", "p", "i", "c", " ", "s", "a", "d", "f", "a", "c", "e", ":",
       " ", "U", "s", "e", "r", "n", "a", "m", "e", " ", "i", "s", " ",
       "r", "e", "q", "u", "i", "r", "e", "d" >>

\* "Epic sadface: Password is required"
Msg_PasswordRequired ==
    << "E", "p", "i", "c", " ", "s", "a", "d", "f", "a", "c", "e", ":",
       " ", "P", "a", "s", "s", "w", "o", "r", "d", " ", "i", "s", " ",
       "r", "e", "q", "u", "i", "r", "e", "d" >>

\* "Epic sadface: Sorry, this user has been locked out."
Msg_LockedOut ==
    << "E", "p", "i", "c", " ", "s", "a", "d", "f", "a", "c", "e", ":",
       " ", "S", "o", "r", "r", "y", ",", " ", "t", "h", "i", "s", " ",
       "u", "s", "e", "r", " ", "h", "a", "s", " ", "b", "e", "e", "n",
       " ", "l", "o", "c", "k", "e", "d", " ", "o", "u", "t", "." >>

Price_2999 == <<"$", "2", "9", ".", "9", "9">>
Price_999  == <<"$", "9", ".", "9", "9">>
Price_1599 == <<"$", "1", "5", ".", "9", "9">>
Price_4999 == <<"$", "4", "9", ".", "9", "9">>
Price_799  == <<"$", "7", ".", "9", "9">>

\* fixtures/users.json
FixtureUsers ==
    [validUsers |->
        << [username |-> "standard_user", password |-> "secret_sauce",
            userType |-> "Standard User"],
           [username |-> "performance_glitch_user", password |-> "secret_sauce",
            userType |-> "Performance Glitch User"],
           [username |-> "problem_user", password |-> "secret_sauce",
            userType |-> "Problem User"] >>,
     invalidUsers |->
        << [id |-> "invalid_username", username |-> "invalid_user",
            password |-> "secret_sauce", expectedError |-> Msg_NoMatch],
           [id |-> "invalid_password", username |-> "standard_user",
            password |-> "wrong_password", expectedError |-> Msg_NoMatch],
           [id |-> "empty_username", username |-> "",
            password |-> "secret_sauce", expectedError |-> Msg_UsernameRequired],
           [id |-> "empty_password", username |-> "standard_user",
            password |-> "", expectedError |-> Msg_PasswordRequired],
           [id |-> "empty_credentials", username |-> "",
            password |-> "", expectedError |-> Msg_UsernameRequired] >>]

\* fixtures/products.json, in declaration order
FixtureProducts ==
    [products |->
        << [name |-> Name_Backpack,     price |-> Price_2999],
           [name |-> Name_BikeLight,    price |-> Price_999],
           [name |-> Name_BoltTShirt,   price |-> Price_1599],
           [name |-> Name_FleeceJacket, price |-> Price_4999],
           [name |-> Name_Onesie,       price |-> Price_799],
           [name |-> Name_RedTShirt,    price |-> Price_1599] >>]

----------------------------------------------------------------------------
(* utils/TestHelpers.js *)

\* A fixture file is intact, absent, no JSON text, or a JSON document
\* without its collections.
FileKinds == {"intact", "absent", "notJson", "noCollection"}

Intact == [users |-> "intact", products |-> "intact"]

\* A helper returns a value, returns `undefined`, or throws.
Returned(ret) == [raised |-> FALSE, undefined |-> FALSE, ret |-> ret]

ReturnedUndefined == [raised |-> FALSE, undefined |-> TRUE, ret |-> <<>>]

Thrown == [raised |-> TRUE, undefined |-> FALSE, ret |-> <<>>]

\* The document JSON.parse returns for a file that is JSON text.
Document(fs, filename) ==
    IF fs[filename] = "noCollection" THEN [version |-> 1]
    ELSE IF filename = "users" THEN FixtureUsers ELSE FixtureProducts

\* loadFixture with the files in state fs: readFileSync throws on an absent
\* file and JSON.parse on text that is no JSON; the catch block throws
\* 'Failed to load fixture ...' for both.  A fresh value on every call.
loadFixtureFrom(fs, filename) ==
    IF fs[filename] \in {"absent", "notJson"} THEN Thrown
    ELSE Returned(Document(fs, filename))

\* An accessor, `return usersData.key`: the property of the document,
\* undefined when the document has no such property.
Collection(fs, filename, key) ==
    LET usersData == loadFixtureFrom(fs, filename)
    IN  IF usersData.raised THEN Thrown
        ELSE IF key \in DOMAIN usersData.ret THEN Returned(usersData.ret[key])
        ELSE ReturnedUndefined

getValidUsersFrom(fs) == Collection(fs, "users", "validUsers")

getInvalidUsersFrom(fs) == Collection(fs, "users", "invalidUsers")

getProductsFrom(fs) == Collection(fs, "products", "products")

\* The helper returned an array.
IsArray(o) == ~o.raised /\ ~o.undefined

\* With the fixture files of the repository.
loadFixture(filename) == loadFixtureFrom(Intact, filename).ret

getValidUsers == loadFixture("users").validUsers

getInvalidUsers == loadFixture("users").invalidUsers

getProducts == loadFixture("products").products

\* Every order of arr.
Orders(arr) ==
    { [i \in 1..Len(arr) |-> arr[p[i]]] : p \in Permutations(1..Len(arr)) }

\* products.sort(...): the sort without the spread copy
shuffled_inPlace(products) ==
    { [shuffled |-> s, products |-> s] : s \in Orders(products) }

\* const shuffled = [...products].sort(() => 0.5 - Math.random()):
\* the sort reorders in place the array it is called on, which is the spread
\* copy, and with a comparator that answers at random it may leave any order.
\* An outcome is the sorted array together with the array `products` as the
\* statement leaves it.
shuffled(products) ==
    { [shuffled |-> s, products |-> products] : s \in Orders(products) }

\* getRandomProducts with products.length - 1 for products.length
getRandomProducts_lengthMinusOne(count) ==
    { [ret |-> slice(s, Min(count, Len(getProducts) - 1)), products |-> getProducts] :
        s \in Orders(getProducts) }

\* The outcomes of getRandomProducts(count): the value returned, and the
\* array the call loaded and sampled from as it is when the call returns.
getRandomProducts(count) ==
    { [ret |-> slice(o.shuffled, Min(count, Len(o.products))),
       products |-> o.products] : o \in shuffled(getProducts) }

----------------------------------------------------------------------------
(* The objects of a worker process.  JSON.parse makes a new document, with  *)
(* new arrays and new records, on every call; an accessor hands out the     *)
(* array of the document it loaded, getRandomProduct one record of it, and  *)
(* getRandomProducts a new array whose elements are records of it.          *)

\* The scenario holds nothing.
NoHeld == [op |-> "none", object |-> 0, key |-> "", items |-> <<>>, shared |-> FALSE]

\* The value held is the array `key` of document `object` itself.
HeldArray(op, object, key) ==
    [op |-> op, object |-> object, key |-> key, items |-> <<>>, shared |-> TRUE]

\* The value held refers to the records at the positions `items` of the
\* array `key` of document `object`.
HeldRecords(op, object, key, items) ==
    [op |-> op, object |-> object, key |-> key, items |-> items, shared |-> FALSE]

\* loadFixture with a module-level cache of the documents parsed
loadFixtureOn_cached(h, filename) ==
    IF \E id \in 1..Len(h.objects) : h.objects[id].filename = filename
    THEN [h |-> h,
          id |-> CHOOSE id \in 1..Len(h.objects) : h.objects[id].filename = filename]
    ELSE [h |-> [h EXCEPT !.objects = Append(@, [filename |-> filename,
                                                 data |-> loadFixture(filename)])],
          id |-> Len(h.objects) + 1]

\* loadFixture in a process with the objects h: readFileSync and JSON.parse
\* run on every call, and the document is a new object.
loadFixtureOn(h, filename) ==
    [h |-> [h EXCEPT !.objects = Append(@, [filename |-> filename,
                                            data |-> loadFixture(filename)])],
     id |-> Len(h.objects) + 1]

\* `return usersData.key`
CollectionOn(h, op, filename, key) ==
    LET usersData == loadFixtureOn(h, filename)
    IN  [usersData.h EXCEPT !.held = HeldArray(op, usersData.id, key)]

getValidUsersOn(h) == CollectionOn(h, "getValidUsers", "users", "validUsers")

getInvalidUsersOn(h) == CollectionOn(h, "getInvalidUsers", "users", "invalidUsers")

getProductsOn(h) == CollectionOn(h, "getProducts", "products", "products")

\* `return products[randomIndex]`, randomIndex counted from 0
getRandomProductOn(h, randomIndex) ==
    LET products == getProductsOn(h)
    IN  [products EXCEPT !.held = HeldRecords("getRandomProduct", products.held.object,
                                              "products", <<randomIndex + 1>>)]

\* The positions 1..n in every order.
Positions(n) == Orders([k \in 1..n |-> k])

ProductPositions == Positions(Len(getProducts))

\* For every count, one order for each value the slice can have: orders
\* that differ past `count` give the same array.
SortOrders ==
    [count \in 0..MaxHeldProducts |->
        { CHOOSE order \in ProductPositions : slice(order, count) = items :
            items \in { slice(order, count) : order \in ProductPositions } }]

\* `[...products].sort(...).slice(0, Math.min(count, products.length))`:
\* a new array of records of the document, in the order `order` the sort
\* left.
getRandomProductsOn(h, count, order) ==
    LET products == getProductsOn(h)
    IN  [products EXCEPT !.held = HeldRecords("getRandomProducts", products.held.object,
                                              "products",
                                              slice(order, Min(count, Len(order))))]

\* The value the scenario holds, as it reads now: the elements of the
\* array, or the one record.
HeldValue(h) ==
    LET array == h.objects[h.held.object].data[h.held.key]
    IN  IF h.held.shared THEN array
        ELSE [i \in 1..Len(h.held.items) |-> array[h.held.items[i]]]

\* The fields whose value is a text; the others are strings.
TextFields == {"name", "price", "expectedError"}

Changed(field) ==
    IF field \in TextFields THEN <<"c", "h", "a", "n", "g", "e", "d">> ELSE "changed"

\* `held[i].field = ...` (`held.field = ...` for the one record): the
\* record is the one of the document.
assignField(h, i, field) ==
    LET at == IF h.held.shared THEN i ELSE h.held.items[i]
    IN  [h EXCEPT !.objects[h.held.object].data[h.held.key][at][field] = Changed(field)]

\* `held.pop()`: the array held loses its last element.
pop(h) ==
    IF h.held.shared
    THEN [h EXCEPT !.objects[h.held.object].data[h.held.key] = SubSeq(@, 1, Len(@) - 1)]
    ELSE [h EXCEPT !.held.items = SubSeq(@, 1, Len(@) - 1)]

\* currencyToNumber without the replace
currencyToNumber_noStrip(currencyString) == parseFloat(currencyString)

currencyToNumber(currencyString) == parseFloat(replace(currencyString, "$"))

----------------------------------------------------------------------------
(* More JavaScript and Playwright text functions. *)

\* String.prototype.trim
RECURSIVE trim(_)
trim(s) ==
    IF s = <<>> THEN s
    ELSE IF s[1] \in WhiteSpace THEN trim(Tail(s))
    ELSE IF s[Len(s)] \in WhiteSpace THEN trim(SubSeq(s, 1, Len(s) - 1))
    ELSE s

\* Number.prototype.toString of a natural number
RECURSIVE NumberToString(_)
NumberToString(n) ==
    IF n < 10 THEN <<Digits[n + 1]>>
    ELSE NumberToString(n \div 10) \o <<Digits[(n % 10) + 1]>>

\* parseInt(text) || 0 for a text without sign: the digits it starts with.
parseIntOr0(text) ==
    LET p == SkipWhiteSpace(text, 1)
    IN  DigitsValue(text, p, DigitRun(text, p))

toLowerChar(c) ==
    IF \E k \in 1..26 : UpperCase[k] = c
    THEN LowerCase[CHOOSE k \in 1..26 : UpperCase[k] = c]
    ELSE c

toLowerCase(s) == [i \in 1..Len(s) |-> toLowerChar(s[i])]

Contains(text, part) ==
    \E k \in 0..(Len(text) - Len(part)) : SubSeq(text, k + 1, k + Len(part)) = part

\* Playwright's :text("...") and hasText: the element's text contains the
\* given text, letter case ignored.
TextMatches(text, given) == Contains(toLowerCase(text), toLowerCase(given))

\* replace(/\s+/g, with): every run of white space becomes `with`.
RECURSIVE replaceRuns(_, _)
replaceRuns(s, with) ==
    IF s = <<>> THEN <<>>
    ELSE IF Head(s) \in WhiteSpace
         THEN with \o replaceRuns(SubSeq(s, SkipWhiteSpace(s, 1), Len(s)), with)
         ELSE <<Head(s)>> \o replaceRuns(Tail(s), with)

\* replace(/\s/g, with): every white space character becomes `with`.
RECURSIVE replaceEach(_, _)
replaceEach(s, with) ==
    IF s = <<>> THEN <<>>
    ELSE (IF Head(s) \in WhiteSpace THEN with ELSE <<Head(s)>>)
         \o replaceEach(Tail(s), with)

\* replace(/[chars]/g, ''): every character of the class is removed.
removeAll(s, chars) == SelectSeq(s, LAMBDA c : c \notin chars)

\* productNameToDataTest with /\s/g for /\s+/g
productNameToDataTest_eachSpace(productName) ==
    removeAll(removeAll(replaceEach(toLowerCase(productName), <<"-">>), {"(", ")"}), {"."})

\* replace(/[()]/, ''): without the g flag only the first match goes
removeFirst(s, chars) ==
    IF \E i \in 1..Len(s) : s[i] \in chars
    THEN LET i == CHOOSE i \in 1..Len(s) :
                      s[i] \in chars /\ \A j \in 1..(i - 1) : s[j] \notin chars
         IN  SubSeq(s, 1, i - 1) \o SubSeq(s, i + 1, Len(s))
    ELSE s

\* productNameToDataTest with /[()]/ for /[()]/g
productNameToDataTest_firstParenthesis(productName) ==
    removeAll(removeFirst(replaceRuns(toLowerCase(productName), <<"-">>), {"(", ")"}), {"."})

productNameToDataTest(productName) ==
    removeAll(removeAll(replaceRuns(toLowerCase(productName), <<"-">>), {"(", ")"}), {"."})

----------------------------------------------------------------------------
(* The site under test, as the page objects and the tests see it.  None of  *)
(* it is in the sources: the pages, their elements and what a click does    *)
(* are modelled from the selectors the page objects name and from what the  *)
(* tests assert.                                                            *)

\* The rows of the inventory page, in page order.
SiteInventory ==
    << [name |-> Name_Backpack,     price |-> Price_2999],
       [name |-> Name_BikeLight,    price |-> Price_999],
       [name |-> Name_BoltTShirt,   price |-> Price_1599],
       [name |-> Name_FleeceJacket, price |-> Price_4999],
       [name |-> Name_Onesie,       price |-> Price_799],
       [name |-> Name_RedTShirt,    price |-> Price_1599] >>

Rows == 1..Len(SiteInventory)

\* The credentials the site lets in.
SiteAccepted ==
    {"standard_user", "problem_user", "performance_glitch_user"} \X {"secret_sauce"}

\* The calls a page received are recorded in the run that follows the calls
\* of LoginPage; elsewhere the recorder is off.
NoTrace == [on |-> FALSE, calls |-> <<>>]

\* A browser context that has loaded nothing yet.
BlankBrowser ==
    [location |-> "blank", usernameField |-> "", passwordField |-> "",
     errorText |-> <<>>, cart |-> <<>>, trace |-> NoTrace]

\* The page records the call it received when its recorder is on.
Recorded(b, name, target, value) ==
    IF b.trace.on
    THEN [b EXCEPT !.trace.calls = Append(@, [call |-> name, target |-> target,
                                               value |-> value])]
    ELSE b

\* A selector: a CSS class or id, inside an element of class scope (""  for
\* the whole page) whose text matches hasText (<<>> matches every text).
Css(css) == [scope |-> "", hasText |-> <<>>, css |-> css]

Within(scope, css) == [scope |-> scope, hasText |-> <<>>, css |-> css]

\* `.inventory_item:has(.inventory_item_name:text("${productName}")) css`
InventoryItemWith(productName, css) ==
    [scope |-> ".inventory_item", hasText |-> productName, css |-> css]

InCart(b, i) == \E k \in 1..Len(b.cart) : b.cart[k] = i

\* The names the scenarios look rows up by, and the rows each one matches.
LookupNames == { getProducts[k].name : k \in 1..Len(getProducts) }

\* "T-Shirt": part of the names of two products.
Text_TShirt == <<"T", "-", "S", "h", "i", "r", "t">>

\* "Sauce Labs Hat": part of no name.
Text_Hat == <<"S", "a", "u", "c", "e", " ", "L", "a", "b", "s", " ", "H", "a", "t">>

\* The names given: those of the fixture, one of them in lower case, a part
\* of two names, a part of none.
GivenNames == LookupNames \cup {toLowerCase(getProducts[1].name), Text_TShirt, Text_Hat}

RowsMatching ==
    [given \in GivenNames \cup {<<>>} |->
        { i \in Rows : TextMatches(SiteInventory[i].name, given) }]

RowMatches(i, given) ==
    IF given \in DOMAIN RowsMatching THEN i \in RowsMatching[given]
    ELSE TextMatches(SiteInventory[i].name, given)

\* The cart page prints the price without the currency sign
\* ("products page may have $, cart doesn't", part_001:340).
CartPriceText(i) == Tail(SiteInventory[i].price)

\* One element of a row of the inventory page, <<>> when the row has none.
InventoryRowElements(b, i, css) ==
    CASE css = ".inventory_item_name" ->
            << [text |-> SiteInventory[i].name, target |-> "name", row |-> i] >>
      [] css = ".inventory_item_price" ->
            << [text |-> SiteInventory[i].price, target |-> "price", row |-> i] >>
      [] css = ".btn_primary" ->
            IF InCart(b, i) THEN <<>>
            ELSE << [text |-> <<>>, target |-> "add", row |-> i] >>
      [] css = ".btn_secondary" ->
            IF InCart(b, i)
            THEN << [text |-> <<>>, target |-> "remove", row |-> i] >>
            ELSE <<>>
      [] OTHER -> <<>>

\* One element of the row of the cart page that shows product i.
CartRowElements(b, i, css) ==
    CASE css = ".inventory_item_name" ->
            << [text |-> SiteInventory[i].name, target |-> "name", row |-> i] >>
      [] css = ".inventory_item_price" ->
            << [text |-> CartPriceText(i), target |-> "price", row |-> i] >>
      [] css = ".cart_quantity" ->
            << [text |-> <<"1">>, target |-> "quantity", row |-> i] >>
      [] css = ".btn_secondary" ->
            << [text |-> <<>>, target |-> "remove", row |-> i] >>
      [] OTHER -> <<>>

RECURSIVE Flatten(_)
Flatten(ss) == IF ss = <<>> THEN <<>> ELSE Head(ss) \o Flatten(Tail(ss))

\* The elements of the header that the inventory and cart pages share.
HeaderElements(b, css) ==
    CASE css = ".shopping_cart_link" ->
            << [text |-> <<>>, target |-> "cart-link", row |-> 0] >>
      [] css = ".shopping_cart_badge" ->
            IF b.cart = <<>> THEN <<>>
            ELSE << [text |-> NumberToString(Len(b.cart)), target |-> "badge", row |-> 0] >>
      [] OTHER -> <<>>

\* The visible elements a selector matches, in page order.
Dom(b, sel) ==
    CASE b.location = "index" ->
            IF sel.scope # "" THEN <<>>
            ELSE CASE sel.css = "#user-name" ->
                        << [text |-> <<>>, target |-> "user-name", row |-> 0] >>
                   [] sel.css = "#password" ->
                        << [text |-> <<>>, target |-> "password", row |-> 0] >>
                   [] sel.css = "#login-button" ->
                        << [text |-> <<>>, target |-> "login-button", row |-> 0] >>
                   [] sel.css = "[data-test=\"error\"]" ->
                        IF b.errorText = <<>> THEN <<>>
                        ELSE << [text |-> b.errorText, target |-> "error", row |-> 0] >>
                   [] sel.css = ".error-button" ->
                        IF b.errorText = <<>> THEN <<>>
                        ELSE << [text |-> <<>>, target |-> "error-button", row |-> 0] >>
                   [] OTHER -> <<>>
      [] b.location = "inventory" ->
            CASE sel.scope = ".inventory_item" ->
                    Flatten([i \in Rows |->
                        IF RowMatches(i, sel.hasText)
                        THEN InventoryRowElements(b, i, sel.css) ELSE <<>>])
              [] sel.scope = "" ->
                    IF sel.css = ".inventory_item"
                    THEN [i \in Rows |-> [text |-> SiteInventory[i].name,
                                          target |-> "row", row |-> i]]
                    ELSE IF sel.css = ".inventory_container"
                    THEN << [text |-> <<>>, target |-> "container", row |-> 0] >>
                    ELSE HeaderElements(b, sel.css)
                         \o Flatten([i \in Rows |-> InventoryRowElements(b, i, sel.css)])
              [] OTHER -> <<>>
      [] b.location = "cart" ->
            CASE sel.scope = ".cart_item" ->
                    Flatten([k \in 1..Len(b.cart) |->
                        IF TextMatches(SiteInventory[b.cart[k]].name, sel.hasText)
                        THEN CartRowElements(b, b.cart[k], sel.css) ELSE <<>>])
              [] sel.scope = ".cart_footer" ->
                    IF sel.css = ".btn_secondary"
                    THEN << [text |-> <<>>, target |-> "continue", row |-> 0] >>
                    ELSE <<>>
              [] sel.scope = "" ->
                    IF sel.css = ".cart_item"
                    THEN [k \in 1..Len(b.cart) |->
                            [text |-> SiteInventory[b.cart[k]].name,
                             target |-> "row", row |-> b.cart[k]]]
                    ELSE IF sel.css = ".cart_list"
                    THEN << [text |-> <<>>, target |-> "list", row |-> 0] >>
                    ELSE HeaderElements(b, sel.css)
                         \o Flatten([k \in 1..Len(b.cart) |->
                                CartRowElements(b, b.cart[k], sel.css)])
                         \o (IF sel.css = ".btn_secondary"
                             THEN << [text |-> <<>>, target |-> "continue", row |-> 0] >>
                             ELSE <<>>)
              [] OTHER -> <<>>
      [] OTHER -> <<>>

\* The browser's back button shows the location `to` again; the site keeps
\* the cart for the whole session and builds the page anew.
SiteBack(b, to) ==
    [b EXCEPT !.location = to, !.errorText = <<>>,
              !.usernameField = "", !.passwordField = ""]

\* Loading the current location again: the page is built anew, the site
\* keeps the cart for the whole session.
SiteReload(b) ==
    [b EXCEPT !.errorText = <<>>, !.usernameField = "", !.passwordField = ""]

\* The login form's answer to a click on #login-button.
SiteLogin(b) ==
    IF b.usernameField = ""
    THEN [b EXCEPT !.errorText = Msg_UsernameRequired]
    ELSE IF b.passwordField = ""
    THEN [b EXCEPT !.errorText = Msg_PasswordRequired]
    ELSE IF <<b.usernameField, b.passwordField>> \in SiteAccepted
    THEN [b EXCEPT !.location = "inventory", !.errorText = <<>>,
                   !.usernameField = "", !.passwordField = ""]
    ELSE IF b.usernameField = "locked_out_user" /\ b.passwordField = "secret_sauce"
    THEN [b EXCEPT !.errorText = Msg_LockedOut]
    ELSE [b EXCEPT !.errorText = Msg_NoMatch]

\* What a click on an element does to the page.
SiteClick(b, el) ==
    CASE el.target = "login-button" -> SiteLogin(b)
      [] el.target = "error-button" -> [b EXCEPT !.errorText = <<>>]
      [] el.target = "add" ->
            IF InCart(b, el.row) THEN b
            ELSE [b EXCEPT !.cart = Append(@, el.row)]
      [] el.target = "remove" ->
            [b EXCEPT !.cart = SelectSeq(@, LAMBDA i : i # el.row)]
      [] el.target = "cart-link" -> [b EXCEPT !.location = "cart"]
      [] el.target = "continue" -> [b EXCEPT !.location = "inventory"]
      [] OTHER -> b

\* What typing a value into an input does to the page.
SiteFill(b, el, value) ==
    CASE el.target = "user-name" -> [b EXCEPT !.usernameField = value]
      [] el.target = "password" -> [b EXCEPT !.passwordField = value]
      [] OTHER -> b

----------------------------------------------------------------------------
(* pages/BasePage.js.  A page method's outcome is the page it leaves,      *)
(* whether it raised, and the value it returned.  The fixed waits that      *)
(* follow a click or a fill let the page settle and change nothing else.    *)

Ok(b, ret) == [b |-> b, raised |-> FALSE, ret |-> ret]

Raised(b) == [b |-> b, raised |-> TRUE, ret |-> <<>>]

\* page.waitForSelector(selector, {state: 'visible', timeout}): returns once
\* a visible element matches, raises when none does within the timeout.
waitForElementVisible(b, selector) ==
    IF Dom(b, selector) = <<>> THEN Raised(b) ELSE Ok(b, <<>>)

\* try { waitForSelector(...); return true } catch { return false }
isElementVisible(b, selector) == ~waitForElementVisible(b, selector).raised

getElementText(b, selector) ==
    IF waitForElementVisible(b, selector).raised THEN Raised(b)
    ELSE Ok(b, trim(Dom(b, selector)[1].text))

\* clickElement that catches the timeout as isElementVisible does
clickElement_caught(b, selector) ==
    IF waitForElementVisible(b, selector).raised THEN Ok(b, <<>>)
    ELSE Ok(SiteClick(b, Dom(b, selector)[1]), <<>>)

\* page.waitForTimeout(ms): time passes, the page stays as it is.
waitForTimeout(b, ms) == Recorded(b, "waitForTimeout", "", ms)

\* page.click(selector) on the first element the selector matches.
click(b, selector) ==
    SiteClick(Recorded(b, "click", Dom(b, selector)[1].target, ""), Dom(b, selector)[1])

\* page.fill(selector, value)
fill(b, selector, value) ==
    SiteFill(Recorded(b, "fill", Dom(b, selector)[1].target, value),
             Dom(b, selector)[1], value)

clickElement(b, selector) ==
    IF waitForElementVisible(b, selector).raised THEN Raised(b)
    ELSE Ok(waitForTimeout(click(b, selector), "300"), <<>>)

fillInput(b, selector, value) ==
    IF waitForElementVisible(b, selector).raised THEN Raised(b)
    ELSE Ok(waitForTimeout(fill(b, selector, value), "200"), <<>>)

----------------------------------------------------------------------------
(* pages/LoginPage.js *)

isLoginPageLoaded(b) == isElementVisible(b, Css("#login-button"))

usernameInput == Css("#user-name")

passwordInput == Css("#password")

loginButton == Css("#login-button")

errorMessage == Css("[data-test=\"error\"]")

errorCloseButton == Css(".error-button")

\* enterUsername that fills the field only when it is empty
enterUsername_ifEmpty(b, username) ==
    IF b.usernameField # "" THEN Ok(b, <<>>)
    ELSE fillInput(b, usernameInput, username)

enterUsername(b, username) == fillInput(b, usernameInput, username)

\* enterPassword with a password left in the code
enterPassword_fixed(b, password) == fillInput(b, passwordInput, "secret_sauce")

enterPassword(b, password) == fillInput(b, passwordInput, password)

clickLogin(b) == clickElement(b, loginButton)

\* login without the click on the login button
login_noSubmit(b, username, password) ==
    LET o1 == fillInput(b, Css("#user-name"), username)
    IN  IF o1.raised THEN o1 ELSE fillInput(o1.b, Css("#password"), password)

\* login that fills the password before the username
login_passwordFirst(b, username, password) ==
    LET o1 == enterPassword(b, password)
        o2 == IF o1.raised THEN o1 ELSE enterUsername(o1.b, username)
        o3 == IF o2.raised THEN o2 ELSE clickLogin(o2.b)
    IN  IF o3.raised THEN o3 ELSE Ok(waitForTimeout(o3.b, "1000"), <<>>)

login(b, username, password) ==
    LET o1 == enterUsername(b, username)
        o2 == IF o1.raised THEN o1 ELSE enterPassword(o1.b, password)
        o3 == IF o2.raised THEN o2 ELSE clickLogin(o2.b)
    IN  IF o3.raised THEN o3 ELSE Ok(waitForTimeout(o3.b, "1000"), <<>>)

\* getErrorMessage reading the close button instead of the message
getErrorMessage_closeButton(b) ==
    IF isElementVisible(b, errorMessage)
    THEN getElementText(b, errorCloseButton).ret
    ELSE <<>>

getErrorMessage(b) ==
    IF isElementVisible(b, errorMessage)
    THEN getElementText(b, errorMessage).ret
    ELSE <<>>

isErrorMessageDisplayed(b) == isElementVisible(b, errorMessage)

\* closeErrorMessage without the check that the button is visible
closeErrorMessage_unchecked(b) == clickElement(b, errorCloseButton)

closeErrorMessage(b) ==
    IF isElementVisible(b, errorCloseButton)
    THEN clickElement(b, errorCloseButton)
    ELSE Ok(b, <<>>)

clearLoginForm(b) ==
    LET o1 == fillInput(b, usernameInput, "")
    IN  IF o1.raised THEN o1 ELSE fillInput(o1.b, passwordInput, "")

----------------------------------------------------------------------------
(* pages/ProductsPage.js *)

shoppingCartLink == Css(".shopping_cart_link")

shoppingCartBadge == Css(".shopping_cart_badge")

\* addProductToCart without the row of the product in its selector
addProductToCart_anyRow(b, productName) == clickElement(b, Css(".btn_primary"))

addProductToCart(b, productName) ==
    clickElement(b, InventoryItemWith(productName, ".btn_primary"))

\* removeProductFromCart that waits for the button and never clicks it
removeProductFromCart_unclicked(b, productName) ==
    IF Dom(b, InventoryItemWith(productName, ".btn_secondary")) = <<>>
    THEN Raised(b) ELSE Ok(b, <<>>)

removeProductFromCart(b, productName) ==
    clickElement(b, InventoryItemWith(productName, ".btn_secondary"))

\* getCartItemCount counting the badges shown and not reading the badge
ProductsPage_getCartItemCount_badges(b) ==
    IF isElementVisible(b, shoppingCartBadge)
    THEN Len(Dom(b, shoppingCartBadge))
    ELSE 0

ProductsPage_getCartItemCount(b) ==
    IF isElementVisible(b, shoppingCartBadge)
    THEN parseIntOr0(getElementText(b, shoppingCartBadge).ret)
    ELSE 0

clickShoppingCart(b) == clickElement(b, shoppingCartLink)

inventoryItems == Css(".inventory_item")

getTotalProductCount(b) == Len(Dom(b, inventoryItems))

\* locator.click(): it waits for the element and is strict, so it raises
\* when the locator matches no visible element and when it matches several.
LocatorClick(b, elements) ==
    IF Len(elements) = 1 THEN Ok(waitForTimeout(SiteClick(b, elements[1]), "500"), <<>>)
    ELSE Raised(b)

\* addProductToCartByIndex without the check that the add button is visible
addProductToCartByIndex_unchecked(b, index) ==
    LET productContainers == Dom(b, inventoryItems)
    IN  IF index < Len(productContainers)
        THEN IF index < 0 THEN Raised(b)
             ELSE LocatorClick(b, InventoryRowElements(b, productContainers[index + 1].row,
                                                       ".btn_primary"))
        ELSE Raised(b)

\* productContainers[index] is undefined for a negative index, and
\* undefined.locator(...) raises a TypeError.
addProductToCartByIndex(b, index) ==
    LET productContainers == Dom(b, inventoryItems)
    IN  IF index < Len(productContainers)
        THEN IF index < 0 THEN Raised(b)
             ELSE LET addButton == InventoryRowElements(b, productContainers[index + 1].row,
                                                        ".btn_primary")
                  IN  IF addButton # <<>> THEN LocatorClick(b, addButton)
                      ELSE Ok(b, <<>>)
        ELSE Raised(b)

removeProductFromCartByIndex(b, index) ==
    LET productContainers == Dom(b, inventoryItems)
    IN  IF index < Len(productContainers)
        THEN IF index < 0 THEN Raised(b)
             ELSE LET removeButton == InventoryRowElements(b, productContainers[index + 1].row,
                                                           ".btn_secondary")
                  IN  IF removeButton # <<>> THEN LocatorClick(b, removeButton)
                      ELSE Ok(b, <<>>)
        ELSE Raised(b)

\* the try/catch around isElementVisible returns false as well
isProductInCart(b, productName) ==
    isElementVisible(b, InventoryItemWith(productName, ".btn_secondary"))

isCartBadgeVisible(b) == isElementVisible(b, shoppingCartBadge)

----------------------------------------------------------------------------
(* pages/CartPage.js *)

cartItems == Css(".cart_item")

cartItemNames == Css(".inventory_item_name")

cartItemPrices == Css(".inventory_item_price")

cartQuantities == Css(".cart_quantity")

removeButtons == Within(".cart_item", ".btn_secondary")

\* the footer button's selector without its scope: every .btn_secondary
continueShoppingButton_unscoped == Css(".btn_secondary")

continueShoppingButton == Within(".cart_footer", ".btn_secondary")

\* The textContent of every element the selector matches.
AllTextContents(b, selector) ==
    [k \in 1..Len(Dom(b, selector)) |-> Dom(b, selector)[k].text]

getCartItemNames(b) ==
    IF isElementVisible(b, cartItemNames) THEN AllTextContents(b, cartItemNames)
    ELSE <<>>

getCartItemPrices(b) ==
    IF isElementVisible(b, cartItemPrices) THEN AllTextContents(b, cartItemPrices)
    ELSE <<>>

getCartItemQuantities(b) ==
    IF isElementVisible(b, cartQuantities) THEN AllTextContents(b, cartQuantities)
    ELSE <<>>

CartPage_getCartItemCount(b) == Len(Dom(b, cartItems))

continueShopping(b) == clickElement(b, continueShoppingButton)

\* page.locator('.cart_item', { hasText: itemName }).locator(css)
CartItemWith(itemName, css) ==
    [scope |-> ".cart_item", hasText |-> itemName, css |-> css]

\* removeItemFromCart that clicks the first remove button of the page
removeItemFromCart_firstButton(b, itemName) ==
    IF Dom(b, removeButtons) = <<>> THEN Raised(b)
    ELSE LocatorClick(b, <<Dom(b, removeButtons)[1]>>)

removeItemFromCart(b, itemName) ==
    LocatorClick(b, Dom(b, CartItemWith(itemName, ".btn_secondary")))

\* removeButtons[index] is undefined for a negative index, and
\* undefined.click() raises a TypeError.
removeItemFromCartByIndex(b, index) ==
    LET buttons == Dom(b, removeButtons)
    IN  IF index < Len(buttons)
        THEN IF index < 0 THEN Raised(b)
             ELSE LocatorClick(b, <<buttons[index + 1]>>)
        ELSE Raised(b)

\* page.goBack() with h the session history, and page.reload(), as the
\* scenarios call them; goBack past the first entry stays on the page.
goBack(b, h) == IF h = <<>> THEN Ok(b, <<>>) ELSE Ok(SiteBack(b, h[Len(h)]), <<>>)

reload(b) == Ok(SiteReload(b), <<>>)

isCartEmpty(b) == CartPage_getCartItemCount(b) = 0

\* clearCart with `if` for `while`: one round only
clearCart_once(b) ==
    IF CartPage_getCartItemCount(b) > 0 /\ Dom(b, removeButtons) # <<>>
    THEN Ok(SiteClick(b, Dom(b, removeButtons)[1]), <<>>)
    ELSE Ok(b, <<>>)

\* One round of clearCart with a `break` left after the click
clearCartRound_breakAfterClick(b) ==
    IF CartPage_getCartItemCount(b) > 0 /\ Dom(b, removeButtons) # <<>>
    THEN [b |-> SiteClick(b, Dom(b, removeButtons)[1]), clicked |-> TRUE,
          again |-> FALSE]
    ELSE [b |-> b, clicked |-> FALSE, again |-> FALSE]

\* One round of the loop of clearCart: the count is read; if it is positive
\* and the first remove button is visible the button is clicked and the loop
\* goes on, else the loop ends (count 0, or the break).
clearCartRound(b) ==
    IF CartPage_getCartItemCount(b) > 0
    THEN IF Dom(b, removeButtons) # <<>>
         THEN [b |-> SiteClick(b, Dom(b, removeButtons)[1]), clicked |-> TRUE,
               again |-> TRUE]
         ELSE [b |-> b, clicked |-> FALSE, again |-> FALSE]
    ELSE [b |-> b, clicked |-> FALSE, again |-> FALSE]

\* The loop of clearCart with `count > 1` for `count > 0`
RECURSIVE clearCartRounds_leaveOne(_, _)
clearCartRounds_leaveOne(b, clicks) ==
    IF CartPage_getCartItemCount(b) > 1 /\ Dom(b, removeButtons) # <<>>
    THEN clearCartRounds_leaveOne(SiteClick(b, Dom(b, removeButtons)[1]), clicks + 1)
    ELSE [b |-> b, clicks |-> clicks]

\* The rounds of clearCart from page b on: the page they leave and the
\* number of clicks made, `clicks` of them before b.
RECURSIVE clearCartRounds(_, _)
clearCartRounds(b, clicks) ==
    LET r == clearCartRound(b)
    IN  IF r.again THEN clearCartRounds(r.b, clicks + 1)
        ELSE [b |-> r.b, clicks |-> clicks]

\* while (await this.getCartItemCount() > 0) { ... }: the loop never raises.
clearCart(b) == Ok(clearCartRounds(b, 0).b, <<>>)
----------------------------------------------------------------------------
(* The credentials the scenarios of tests/ submit. *)

\* 'a'.repeat(1000)
longString ==
    "aaaaaaaaaaaaaaaaaaaaaaaaaaaaaaaaaaaaaaaaaaaaaaaaaaaaaaaaaaaaaaaaaaaaaaaaaaaaaaaaaaaaaaaaaaaaaaaaaaaaaaaaaaaaaaaaaaaaaaaaaaaaaaaaaaaaaaaaaaaaaaaaaaaaaaaaaaaaaaaaaaaaaaaaaaaaaaaaaaaaaaaaaaaaaaaaaaaaaaaaaaaaaaaaaaaaaaaaaaaaaaaaaaaaaaaaaaaaaaaaaaaaaaaaaaaaaaaaaaaaaaaaaaaaaaaaaaaaaaaaaaaaaaaaaaaaaaaaaaaaaaaaaaaaaaaaaaaaaaaaaaaaaaaaaaaaaaaaaaaaaaaaaaaaaaaaaaaaaaaaaaaaaaaaaaaaaaaaaaaaaaaaaaaaaaaaaaaaaaaaaaaaaaaaaaaaaaaaaaaaaaaaaaaaaaaaaaaaaaaaaaaaaaaaaaaaaaaaaaaaaaaaaaaaaaaaaaaaaaaaaaaaaaaaaaaaaaaaaaaaaaaaaaaaaaaaaaaaaaaaaaaaaaaaaaaaaaaaaaaaaaaaaaaaaaaaaaaaaaaaaaaaaaaaaaaaaaaaaaaaaaaaaaaaaaaaaaaaaaaaaaaaaaaaaaaaaaaaaaaaaaaaaaaaaaaaaaaaaaaaaaaaaaaaaaaaaaaaaaaaaaaaaaaaaaaaaaaaaaaaaaaaaaaaaaaaaaaaaaaaaaaaaaaaaaaaaaaaaaaaaaaaaaaaaaaaaaaaaaaaaaaaaaaaaaaaaaaaaaaaaaaaaaaaaaaaaaaaaaaaaaaaaaaaaaaaaaaaaaaaaaaaaaaaaaaaaaaaaaaaaaaaaaaaaaaaaaaaaaaaaaaaaaaaaaaaaaaaaaaaaaaaaaaaaaaaaaaaaaaaaaaaaaaaaaaaaaaaaaaaaaaaaaaaaaaaaaaaaaaaaaaaaaaaaaaaaaaaaaaaaaaaaaaaaaaaaaaaaaaaaaaaaaaaaaaaaaaaaaaaaaaaaaaaaaaaaaaaaaaa"

sqlInjectionAttempts ==
    { <<"admin' OR '1'='1", "password">>,
      <<"admin'; DROP TABLE users; --", "password">>,
      <<"' UNION SELECT * FROM users --", "password">> }

xssAttempts ==
    { <<"<script>alert(\"XSS\")</script>", "password">>,
      <<"javascript:alert(\"XSS\")", "password">>,
      <<"<img src=x onerror=alert(\"XSS\")>", "password">> }

specialCharCredentials ==
    { <<"user@#$%^&*()", "pass!@#$%">>,
      <<"user\"with\"quotes", "pass'with'quotes">>,
      <<"user\nwith\nnewlines", "pass\twith\ttabs">> }

longInputs == { <<longString, "secret_sauce">>, <<"standard_user", longString>> }

otherAttempts ==
    { <<"invalid_user", "wrong_password">>,
      <<"locked_out_user", "secret_sauce">>,
      <<"rapid_test_user", "wrong_pass">> }

Pair(userData) == <<userData.username, userData.password>>

ValidPairs == { Pair(getValidUsers[k]) : k \in 1..Len(getValidUsers) }

InvalidPairs == { Pair(getInvalidUsers[k]) : k \in 1..Len(getInvalidUsers) }

Attempts ==
    ValidPairs \cup InvalidPairs \cup sqlInjectionAttempts \cup xssAttempts
    \cup specialCharCredentials \cup longInputs \cup otherAttempts

----------------------------------------------------------------------------
(* The texts currencyToNumber is called with. *)

Alphabet == {"$", ".", "0", "1", "5", "a", "e", "-", " "}

Texts == UNION { [1..n -> Alphabet] : n \in 0..MaxLen }

TwoDigits(n) == <<Digits[(n \div 10) + 1], Digits[(n % 10) + 1]>>

\* The price of c cents as the fixture and the site write it: "$D+.DD".
FormatPrice(c) == <<"$">> \o NumberToString(c \div 100) \o <<".">> \o TwoDigits(c % 100)

Prices == { FormatPrice(c) : c \in 0..MaxCents }

Malformed ==
    { <<"f", "r", "e", "e">>, <<>>, <<"$">>,
      <<"$", "1", "2", "a", "b", "c">>, <<"1", "2", "$", "3", "4">> }

CurrencyInputs == Texts \cup Prices \cup Malformed

----------------------------------------------------------------------------
(* The names productNameToDataTest is called with. *)

NameAlphabet == {"S", "l", "b", " ", "\t", "(", ")", ".", "-"}

NameInputs == LookupNames \cup UNION { [1..n -> NameAlphabet] : n \in 0..MaxNameLen }

----------------------------------------------------------------------------
(* The state. *)

NoPair == <<>>

NoSample == [sampled |-> FALSE, items |-> <<>>, i |-> 0]

\* No clearCart was called since the cart last changed otherwise.
NoClear == [active |-> FALSE, done |-> FALSE, before |-> 0, clicks |-> 0]

NoCall == [op |-> "none", arg |-> <<>>, ret |-> <<>>, products |-> <<>>,
           raised |-> FALSE, undefined |-> FALSE]

\* The call `op` of an accessor with outcome o.
AccessorCall(op, o) ==
    [op |-> op, arg |-> <<>>, ret |-> o.ret, products |-> <<>>,
     raised |-> o.raised, undefined |-> o.undefined]

\* One fixture file at most is not intact.
FileStates ==
    { fs \in [users : FileKinds, products : FileKinds] :
        fs.users = "intact" \/ fs.products = "intact" }

\* The sequences of cart operations that are followed step by step: add,
\* remove, add again (part_001:213-215) and add three, remove one, clear.
Followed ==
    { <<"add", "remove", "add">>,
      <<"add", "add", "add", "remove", "clear">> }

Prefixes == UNION { { SubSeq(f, 1, n) : n \in 0..Len(f) } : f \in Followed }

\* Any other sequence of cart operations.
Untracked == <<"other">>

Log(kind) == IF Append(hist, kind) \in Prefixes THEN Append(hist, kind)
             ELSE Untracked

\* The variables of the parallel run, and their values when none is modelled.
parallel == <<workers, handles, actor>>

\* The worker process before any fixture is loaded, the scenario holding
\* nothing.
NoHeap == [objects |-> <<>>, held |-> NoHeld, changes |-> 0]

\* The timed run when none is modelled.
NoPending == [pc |-> "none", updates |-> <<>>, reads |-> <<>>]

Workers == {1, 2}

NoHandles == [loginPage |-> 0, productsPage |-> 0, cartPage |-> 0]

NoParallel ==
    /\ workers = [w \in Workers |-> [page |-> BlankBrowser, failed |-> FALSE]]
    /\ handles = [w \in Workers |-> NoHandles]
    /\ actor = [worker |-> 0, read |-> [w \in Workers |-> [handles |-> NoHandles]]]

Init ==
    /\ browser = BlankBrowser
    /\ submitted = NoPair
    /\ failed = FALSE
    /\ last = "none"
    /\ hist = <<>>
    /\ testProducts = NoSample
    /\ call = NoCall
    /\ clearing = NoClear
    /\ files = Intact
    /\ NoParallel
    /\ history = <<>>
    /\ pending = NoPending
    /\ heap = NoHeap

\* No scenario runs yet: the page is blank.
Idle == browser.location = "blank"

\* No scenario runs and no helper call has been made since the last one.
Fresh == Idle /\ call = NoCall

\* A scenario runs and no action of it has raised.
Running == browser.location # "blank" /\ ~failed /\ ~clearing.active

OnShop == browser.location \in {"inventory", "cart"}

\* The cart scenarios log in as getValidUsers()[0] in their beforeEach.
CartScenario == OnShop /\ submitted = Pair(getValidUsers[1])

\* A scenario calls the methods of ProductsPage on the inventory page and
\* those of CartPage on the cart page.
OnProductsPage == CartScenario /\ browser.location = "inventory"

OnCartPage == CartScenario /\ browser.location = "cart"

\* The scenario takes the outcome o of the page action `name`; a cart
\* operation that returned is recorded by its kind.
Do(o, name, kind) ==
    /\ browser' = o.b
    /\ failed' = o.raised
    /\ last' = name
    /\ hist' = IF kind = "" \/ o.raised THEN hist ELSE Log(kind)

----------------------------------------------------------------------------
(* Helper calls outside a scenario, one between two scenarios. *)

CallGetValidUsers ==
    /\ Fresh
    /\ call' = AccessorCall("getValidUsers", getValidUsersFrom(files))
    /\ UNCHANGED <<browser, submitted, failed, last, hist, testProducts, clearing, files>>
    /\ UNCHANGED <<parallel, history, pending, heap>>

CallGetInvalidUsers ==
    /\ Fresh
    /\ call' = AccessorCall("getInvalidUsers", getInvalidUsersFrom(files))
    /\ UNCHANGED <<browser, submitted, failed, last, hist, testProducts, clearing, files>>
    /\ UNCHANGED <<parallel, history, pending, heap>>

CallGetProducts ==
    /\ Fresh
    /\ call' = AccessorCall("getProducts", getProductsFrom(files))
    /\ UNCHANGED <<browser, submitted, failed, last, hist, testProducts, clearing, files>>
    /\ UNCHANGED <<parallel, history, pending, heap>>

\* getRandomProducts throws what getProducts throws, and [...products]
\* throws a TypeError when products is undefined.
CallGetRandomProducts ==
    /\ Fresh
    /\ \E count \in (0 - MaxNegativeCount)..MaxCount :
          IF IsArray(getProductsFrom(files))
          THEN \E o \in getRandomProducts(count) :
                  call' = [op |-> "getRandomProducts", arg |-> count,
                           ret |-> o.ret, products |-> o.products,
                           raised |-> FALSE, undefined |-> FALSE]
          ELSE call' = [op |-> "getRandomProducts", arg |-> count,
                        ret |-> <<>>, products |-> <<>>,
                        raised |-> TRUE, undefined |-> FALSE]
    /\ UNCHANGED <<browser, submitted, failed, last, hist, testProducts, clearing, files>>
    /\ UNCHANGED <<parallel, history, pending, heap>>

\* parseFloat and replace raise on no string: the call always returns.
CallCurrencyToNumber ==
    /\ Fresh
    /\ \E currencyString \in CurrencyInputs :
          call' = [op |-> "currencyToNumber", arg |-> currencyString,
                   ret |-> currencyToNumber(currencyString),
                   products |-> <<>>, raised |-> FALSE, undefined |-> FALSE]
    /\ UNCHANGED <<browser, submitted, failed, last, hist, testProducts, clearing, files>>
    /\ UNCHANGED <<parallel, history, pending, heap>>

CallProductNameToDataTest ==
    /\ Fresh
    /\ \E productName \in NameInputs :
          call' = [op |-> "productNameToDataTest", arg |-> productName,
                   ret |-> productNameToDataTest(productName),
                   products |-> <<>>, raised |-> FALSE, undefined |-> FALSE]
    /\ UNCHANGED <<browser, submitted, failed, last, hist, testProducts, clearing, files>>
    /\ UNCHANGED <<parallel, history, pending, heap>>

----------------------------------------------------------------------------
(* The steps of a scenario. *)

\* beforeEach: a fresh page, loginPage.navigateToLogin()
\* The scenarios are defined with the arrays getValidUsers() and
\* getInvalidUsers() return when the test files are loaded; when either
\* call fails there the files do not load and no scenario runs.
ScenariosDefined ==
    IsArray(getValidUsersFrom(files)) /\ IsArray(getInvalidUsersFrom(files))

NavigateToLogin ==
    /\ Idle
    /\ ScenariosDefined
    /\ browser' = [BlankBrowser EXCEPT !.location = "index"]
    /\ last' = "navigateToLogin"
    /\ call' = NoCall
    /\ UNCHANGED <<submitted, failed, hist, testProducts, clearing, files>>
    /\ UNCHANGED <<parallel, history, pending, heap>>

Login ==
    /\ Running
    /\ browser.location = "index"
    /\ \E pair \in Attempts :
          /\ Do(login(browser, pair[1], pair[2]), "login", "")
          /\ submitted' = pair
    /\ UNCHANGED <<testProducts, call, clearing, files>>
    /\ UNCHANGED <<parallel, history, pending, heap>>

ClearLoginForm ==
    /\ Running
    /\ browser.location = "index"
    /\ Do(clearLoginForm(browser), "clearLoginForm", "")
    /\ UNCHANGED <<submitted, testProducts, call, clearing, files>>
    /\ UNCHANGED <<parallel, history, pending, heap>>

CloseErrorMessage ==
    /\ Running
    /\ browser.location = "index"
    /\ Do(closeErrorMessage(browser), "closeErrorMessage", "")
    /\ UNCHANGED <<submitted, testProducts, call, clearing, files>>
    /\ UNCHANGED <<parallel, history, pending, heap>>

AddProductToCart ==
    /\ Running
    /\ OnProductsPage
    /\ IsArray(getProductsFrom(files))
    /\ ~testProducts.sampled
    /\ \E productName \in LookupNames :
          Do(addProductToCart(browser, productName), "addProductToCart", "add")
    /\ clearing' = NoClear
    /\ UNCHANGED <<submitted, testProducts, call, files>>
    /\ UNCHANGED <<parallel, history, pending, heap>>

RemoveProductFromCart ==
    /\ Running
    /\ OnProductsPage
    /\ IsArray(getProductsFrom(files))
    /\ ~testProducts.sampled
    /\ \E productName \in LookupNames :
          Do(removeProductFromCart(browser, productName),
             "removeProductFromCart", "remove")
    /\ clearing' = NoClear
    /\ UNCHANGED <<submitted, testProducts, call, files>>
    /\ UNCHANGED <<parallel, history, pending, heap>>

\* The scripted scenarios go to the cart once their loop is over.
ClickShoppingCart ==
    /\ Running
    /\ OnShop
    /\ testProducts.sampled => testProducts.i = Len(testProducts.items)
    /\ Do(clickShoppingCart(browser), "clickShoppingCart", "")
    /\ UNCHANGED <<submitted, testProducts, call, clearing, files>>
    /\ UNCHANGED <<parallel, history, pending, heap>>

ContinueShopping ==
    /\ Running
    /\ OnCartPage
    /\ ~testProducts.sampled
    /\ Do(continueShopping(browser), "continueShopping", "")
    /\ UNCHANGED <<submitted, testProducts, call, clearing, files>>
    /\ UNCHANGED <<parallel, history, pending, heap>>

ClearCart ==
    /\ Running
    /\ OnCartPage
    /\ ~testProducts.sampled
    /\ Do(clearCart(browser), "clearCart", "clear")
    /\ clearing' = [active |-> FALSE, done |-> TRUE,
                    before |-> Len(browser.cart),
                    clicks |-> clearCartRounds(browser, 0).clicks]
    /\ UNCHANGED <<submitted, testProducts, call, files>>
    /\ UNCHANGED <<parallel, history, pending, heap>>

\* const testProducts = TestHelpers.getRandomProducts(count), first thing
\* after the login of beforeEach
GetRandomProducts ==
    /\ Running
    /\ OnProductsPage
    /\ browser.cart = <<>> /\ hist = <<>>
    /\ ~testProducts.sampled
    /\ IF IsArray(getProductsFrom(files))
       THEN /\ \E count \in 0..MaxCount : \E o \in getRandomProducts(count) :
                  testProducts' = [sampled |-> TRUE, items |-> o.ret, i |-> 0]
            /\ UNCHANGED failed
       ELSE /\ failed' = TRUE
            /\ UNCHANGED testProducts
    /\ last' = "getRandomProducts"
    /\ UNCHANGED <<browser, submitted, hist, call, clearing, files>>
    /\ UNCHANGED <<parallel, history, pending, heap>>

\* for (i < testProducts.length) addProductToCart(testProducts[i].name)
AddSampled ==
    /\ Running
    /\ testProducts.sampled
    /\ testProducts.i < Len(testProducts.items)
    /\ Do(addProductToCart(browser, testProducts.items[testProducts.i + 1].name),
          "addProductToCart", "add")
    /\ testProducts' = [testProducts EXCEPT !.i = @ + 1]
    /\ clearing' = NoClear
    /\ UNCHANGED <<submitted, call, files>>
    /\ UNCHANGED <<parallel, history, pending, heap>>

\* The scenario is over; the next one starts from a fresh browser context.
NewScenario ==
    /\ ~Fresh
    /\ ~clearing.active
    /\ browser' = BlankBrowser
    /\ submitted' = NoPair
    /\ failed' = FALSE
    /\ last' = "none"
    /\ hist' = <<>>
    /\ testProducts' = NoSample
    /\ call' = NoCall
    /\ clearing' = NoClear
    /\ UNCHANGED files
    /\ UNCHANGED <<parallel, history, pending, heap>>

Next ==
    \/ CallGetValidUsers
    \/ CallGetInvalidUsers
    \/ CallGetProducts
    \/ CallGetRandomProducts
    \/ CallCurrencyToNumber
    \/ CallProductNameToDataTest
    \/ NavigateToLogin
    \/ Login
    \/ ClearLoginForm
    \/ CloseErrorMessage
    \/ AddProductToCart
    \/ RemoveProductFromCart
    \/ ClickShoppingCart
    \/ ContinueShopping
    \/ ClearCart
    \/ GetRandomProducts
    \/ AddSampled
    \/ NewScenario

Spec == Init /\ [][Next]_vars

----------------------------------------------------------------------------
(* clearCart one round at a time: the scenario awaits the call, so no other *)
(* step of it runs until the loop is over; every round that is due runs.    *)

\* await cartPage.clearCart(): the call starts
ClearCartBegin ==
    /\ Running
    /\ OnCartPage
    /\ ~testProducts.sampled
    /\ clearing' = [active |-> TRUE, done |-> FALSE,
                    before |-> Len(browser.cart), clicks |-> 0]
    /\ last' = "clearCart"
    /\ UNCHANGED <<browser, submitted, failed, hist, testProducts, call, files>>
    /\ UNCHANGED <<parallel, history, pending, heap>>

\* One evaluation of the loop condition and, if it holds, of the loop body.
ClearCartRound ==
    /\ clearing.active
    /\ LET r == clearCartRound(browser)
       IN  /\ browser' = r.b
           /\ clearing' = [clearing EXCEPT
                              !.clicks = IF r.clicked THEN @ + 1 ELSE @,
                              !.active = r.again,
                              !.done = ~r.again]
           /\ hist' = IF r.again THEN hist ELSE Log("clear")
    /\ UNCHANGED <<submitted, failed, last, testProducts, call, files>>
    /\ UNCHANGED <<parallel, history, pending, heap>>

NextClear ==
    \/ NavigateToLogin
    \/ Login
    \/ AddProductToCart
    \/ RemoveProductFromCart
    \/ ClickShoppingCart
    \/ ContinueShopping
    \/ ClearCartBegin
    \/ ClearCartRound
    \/ NewScenario

SpecClear == Init /\ [][NextClear]_vars /\ WF_vars(ClearCartRound)

----------------------------------------------------------------------------
(* The same steps with the fixture files in any state when the run starts. *)

InitFixtures ==
    /\ browser = BlankBrowser
    /\ submitted = NoPair
    /\ failed = FALSE
    /\ last = "none"
    /\ hist = <<>>
    /\ testProducts = NoSample
    /\ call = NoCall
    /\ clearing = NoClear
    /\ files \in FileStates
    /\ NoParallel
    /\ history = <<>>
    /\ pending = NoPending
    /\ heap = NoHeap

SpecFixtures == InitFixtures /\ [][Next]_vars

----------------------------------------------------------------------------
(* Two scenarios of tests/cart-operations.spec.js run in parallel, one per  *)
(* worker.  A worker is a process: it loads the test file itself, so the     *)
(* variables loginPage, productsPage and cartPage of the describe block      *)
(* exist once per worker; every test gets a page in a browser context of     *)
(* its own.  The steps of the two workers interleave in any order.           *)

\* The module scope of the variables a test of worker w assigns and reads.
Scope_shared(w) == 1

Scope(w) == w

mainVars == <<browser, submitted, failed, last, hist, testProducts, call,
              clearing, files, history, pending, heap>>

ParallelNames == { getProducts[k].name : k \in 1..MaxParallelProducts }

\* The page a page object of worker w drives.
PageOf(w, pageObject) == workers[handles[Scope(w)][pageObject]].page

\* What worker w reads through its page objects: the pages they drive and,
\* of the page of productsPage, the location (past the login or not), the
\* cart and the badge count.
Observed(w) ==
    IF handles[Scope(w)].productsPage = 0 THEN [handles |-> NoHandles]
    ELSE [handles  |-> handles[Scope(w)],
          location |-> PageOf(w, "productsPage").location,
          cart     |-> PageOf(w, "productsPage").cart,
          count    |-> ProductsPage_getCartItemCount(PageOf(w, "productsPage"))]

\* Worker w takes a step: what every worker read before it is kept.
Step(w) == [worker |-> w, read |-> [v \in Workers |-> Observed(v)]]

\* Worker w goes on with its test: beforeEach has run and nothing raised.
Testing(w) ==
    /\ handles[Scope(w)].productsPage # 0
    /\ workers[w].page.location # "blank"
    /\ ~workers[w].failed

\* The action of worker w on the page `target` has outcome o.
ParallelDo(w, target, o) ==
    /\ workers' = [v \in Workers |->
                      [page   |-> IF v = target THEN o.b ELSE workers[v].page,
                       failed |-> IF v = w THEN o.raised ELSE workers[v].failed]]
    /\ actor' = Step(w)
    /\ UNCHANGED handles

\* beforeEach of worker w, on the fresh page of its test: the page objects
\* are built over the page and assigned, then navigateToLogin and login as
\* getValidUsers()[0].
ParallelBeforeEach(w) ==
    /\ workers[w].page.location = "blank"
    /\ LET fresh == [BlankBrowser EXCEPT !.location = "index"]
           o == login(fresh, getValidUsers[1].username, getValidUsers[1].password)
       IN  workers' = [workers EXCEPT ![w] = [page |-> o.b, failed |-> o.raised]]
    /\ handles' = [handles EXCEPT ![Scope(w)] =
                      [loginPage |-> w, productsPage |-> w, cartPage |-> w]]
    /\ actor' = Step(w)
    /\ UNCHANGED mainVars

ParallelAdd(w) ==
    /\ Testing(w)
    /\ PageOf(w, "productsPage").location = "inventory"
    /\ \E productName \in ParallelNames :
          ParallelDo(w, handles[Scope(w)].productsPage,
                     addProductToCart(PageOf(w, "productsPage"), productName))
    /\ UNCHANGED mainVars

ParallelRemove(w) ==
    /\ Testing(w)
    /\ PageOf(w, "productsPage").location = "inventory"
    /\ \E productName \in ParallelNames :
          ParallelDo(w, handles[Scope(w)].productsPage,
                     removeProductFromCart(PageOf(w, "productsPage"), productName))
    /\ UNCHANGED mainVars

ParallelClickShoppingCart(w) ==
    /\ Testing(w)
    /\ ParallelDo(w, handles[Scope(w)].productsPage,
                  clickShoppingCart(PageOf(w, "productsPage")))
    /\ UNCHANGED mainVars

ParallelContinueShopping(w) ==
    /\ Testing(w)
    /\ PageOf(w, "cartPage").location = "cart"
    /\ ParallelDo(w, handles[Scope(w)].cartPage,
                  continueShopping(PageOf(w, "cartPage")))
    /\ UNCHANGED mainVars

ParallelClearCart(w) ==
    /\ Testing(w)
    /\ PageOf(w, "cartPage").location = "cart"
    /\ ParallelDo(w, handles[Scope(w)].cartPage,
                  clearCart(PageOf(w, "cartPage")))
    /\ UNCHANGED mainVars

\* The test of worker w is over and its page and context are closed; the
\* variables of the describe block keep their page objects until the next
\* beforeEach of the worker.
ParallelEnd(w) ==
    /\ workers[w].page.location # "blank"
    /\ workers' = [workers EXCEPT ![w] = [page |-> BlankBrowser, failed |-> FALSE]]
    /\ actor' = Step(w)
    /\ UNCHANGED handles
    /\ UNCHANGED mainVars

NextParallel ==
    \E w \in Workers :
        \/ ParallelBeforeEach(w)
        \/ ParallelAdd(w)
        \/ ParallelRemove(w)
        \/ ParallelClickShoppingCart(w)
        \/ ParallelContinueShopping(w)
        \/ ParallelClearCart(w)
        \/ ParallelEnd(w)

SpecParallel == Init /\ [][NextParallel]_vars

----------------------------------------------------------------------------
(* A scenario of tests/cart-operations.spec.js that moves between the      *)
(* inventory page and the cart page, goes back and reloads, with the       *)
(* session history of its browser.                                          *)

NavigationNames == { getProducts[k].name : k \in 1..MaxNavigationProducts }

\* The session history once the page went from b to c: a step that changed
\* the location leaves the location of b behind, and the history keeps the
\* last MaxBack locations.
Visited(b, c) ==
    LET left == Append(history, b.location)
    IN  IF c.location = b.location THEN history
        ELSE SubSeq(left, Max(1, Len(left) - MaxBack + 1), Len(left))

\* The scenarios go back only to a page of the shop.
CanGoBack ==
    /\ history # <<>>
    /\ history[Len(history)] \in {"inventory", "cart"}

\* The scenario takes the outcome o of the page action `name`.
NavigationDo(o, name) ==
    /\ browser' = o.b
    /\ failed' = o.raised
    /\ last' = name
    /\ UNCHANGED <<submitted, hist, testProducts, call, clearing, files, pending>>
    /\ UNCHANGED <<parallel, heap>>

\* beforeEach: navigateToLogin, then login as getValidUsers()[0].
NavigationBeforeEach ==
    /\ Idle
    /\ LET fresh == [BlankBrowser EXCEPT !.location = "index"]
           o == login(fresh, getValidUsers[1].username, getValidUsers[1].password)
       IN  /\ browser' = o.b
           /\ failed' = o.raised
           /\ history' = IF o.b.location = "index" THEN <<"blank">>
                         ELSE SubSeq(<<"blank", "index">>, 3 - Min(2, MaxBack), 2)
    /\ submitted' = Pair(getValidUsers[1])
    /\ last' = "login"
    /\ UNCHANGED <<hist, testProducts, call, clearing, files, pending>>
    /\ UNCHANGED <<parallel, heap>>

NavigationAdd ==
    /\ Running
    /\ OnProductsPage
    /\ \E productName \in NavigationNames :
          /\ NavigationDo(addProductToCart(browser, productName), "addProductToCart")
          /\ history' = Visited(browser, addProductToCart(browser, productName).b)

NavigationRemove ==
    /\ Running
    /\ OnProductsPage
    /\ \E productName \in NavigationNames :
          /\ NavigationDo(removeProductFromCart(browser, productName),
                          "removeProductFromCart")
          /\ history' = Visited(browser, removeProductFromCart(browser, productName).b)

NavigationClickShoppingCart ==
    /\ Running
    /\ CartScenario
    /\ NavigationDo(clickShoppingCart(browser), "clickShoppingCart")
    /\ history' = Visited(browser, clickShoppingCart(browser).b)

NavigationContinueShopping ==
    /\ Running
    /\ OnCartPage
    /\ NavigationDo(continueShopping(browser), "continueShopping")
    /\ history' = Visited(browser, continueShopping(browser).b)

\* page.goBack(): the entry gone back to leaves the history.
NavigationGoBack ==
    /\ Running
    /\ CartScenario
    /\ CanGoBack
    /\ NavigationDo(goBack(browser, history), "goBack")
    /\ history' = SubSeq(history, 1, Len(history) - 1)

\* page.reload()
NavigationReload ==
    /\ Running
    /\ CartScenario
    /\ NavigationDo(reload(browser), "reload")
    /\ UNCHANGED history

\* The scenario is over; the next one starts from a fresh browser context.
NavigationEnd ==
    /\ ~Idle
    /\ browser' = BlankBrowser
    /\ submitted' = NoPair
    /\ failed' = FALSE
    /\ last' = "none"
    /\ history' = <<>>
    /\ UNCHANGED <<hist, testProducts, call, clearing, files, pending>>
    /\ UNCHANGED <<parallel, heap>>

NextNavigation ==
    \/ NavigationBeforeEach
    \/ NavigationAdd
    \/ NavigationRemove
    \/ NavigationClickShoppingCart
    \/ NavigationContinueShopping
    \/ NavigationGoBack
    \/ NavigationReload
    \/ NavigationEnd

SpecNavigation == Init /\ [][NextNavigation]_vars

----------------------------------------------------------------------------
(* The scenario 'Should add multiple products to cart' with a site that     *)
(* shows the effect of a click some time after the click.  The scenario     *)
(* awaits one call after the other: addProductToCart (click, two fixed      *)
(* waits), the fixed wait of the loop, getCartItemCount.                     *)

Latencies == 0..MaxLatency

\* The page once d units have passed: the updates due by then are shown.
RECURSIVE Shown(_, _, _)
Shown(b, updates, d) ==
    IF updates = <<>> THEN b
    ELSE Shown(IF updates[1].due <= d THEN SiteClick(b, updates[1].el) ELSE b,
               Tail(updates), d)

\* The updates still to be shown once d units have passed.
Left(updates, d) ==
    LET rest == SelectSeq(updates, LAMBDA u : u.due > d)
    IN  [k \in 1..Len(rest) |-> [rest[k] EXCEPT !.due = @ - d]]

\* The time until the first update is due.
RECURSIVE FirstDue(_)
FirstDue(updates) ==
    IF Len(updates) = 1 THEN updates[1].due
    ELSE Min(updates[1].due, FirstDue(Tail(updates)))

\* The time isElementVisible(shoppingCartBadge) takes: none with the badge
\* shown, else until an update shows it or until the timeout.
BadgeWait(b, updates) ==
    IF Dom(b, shoppingCartBadge) # <<>> THEN 0
    ELSE IF updates # <<>> /\ FirstDue(updates) <= VisibleTimeout
    THEN FirstDue(updates)
    ELSE VisibleTimeout

\* beforeEach, then testProducts = getRandomProducts(MaxTimedProducts).
TimedBeforeEach ==
    /\ Idle
    /\ pending.pc = "none"
    /\ LET fresh == [BlankBrowser EXCEPT !.location = "index"]
           o == login(fresh, getValidUsers[1].username, getValidUsers[1].password)
       IN  /\ browser' = o.b
           /\ failed' = o.raised
    /\ submitted' = Pair(getValidUsers[1])
    /\ \E o \in getRandomProducts(MaxTimedProducts) :
          testProducts' = [sampled |-> TRUE, items |-> o.ret, i |-> 0]
    /\ pending' = [pc |-> "add", updates |-> <<>>, reads |-> <<>>]
    /\ last' = "getRandomProducts"
    /\ UNCHANGED <<hist, call, clearing, files, history>>
    /\ UNCHANGED <<parallel, heap>>

\* await productsPage.addProductToCart(testProducts[i].name): the button is
\* waited for and clicked, the site shows the effect after some latency,
\* and the two fixed waits pass.
TimedAdd ==
    /\ Running
    /\ pending.pc = "add"
    /\ LET selector == InventoryItemWith(testProducts.items[testProducts.i + 1].name,
                                         ".btn_primary")
       IN  IF waitForElementVisible(browser, selector).raised
           THEN /\ failed' = TRUE
                /\ UNCHANGED <<browser, pending>>
           ELSE \E latency \in Latencies :
                  LET updates == Append(pending.updates,
                                        [el |-> Dom(browser, selector)[1], due |-> latency])
                      d == ClickSettle + AddSettle
                  IN  /\ browser' = Shown(browser, updates, d)
                      /\ pending' = [pending EXCEPT !.pc = "wait",
                                                    !.updates = Left(updates, d)]
                      /\ failed' = FALSE
    /\ last' = "addProductToCart"
    /\ UNCHANGED <<submitted, hist, testProducts, call, clearing, files, history>>
    /\ UNCHANGED <<parallel, heap>>

\* await page.waitForTimeout(300)
TimedWait ==
    /\ Running
    /\ pending.pc = "wait"
    /\ browser' = Shown(browser, pending.updates, TestDelay)
    /\ pending' = [pending EXCEPT !.pc = "read",
                                  !.updates = Left(pending.updates, TestDelay)]
    /\ last' = "waitForTimeout"
    /\ UNCHANGED <<submitted, failed, hist, testProducts, call, clearing, files, history>>
    /\ UNCHANGED <<parallel, heap>>

\* await productsPage.getCartItemCount(), compared with i + 1 by the test;
\* the loop goes on with the next product.
TimedRead ==
    /\ Running
    /\ pending.pc = "read"
    /\ LET d == BadgeWait(browser, pending.updates)
           b == Shown(browser, pending.updates, d)
       IN  /\ browser' = b
           /\ pending' = [pc |-> IF testProducts.i + 1 < Len(testProducts.items)
                                 THEN "add" ELSE "done",
                          updates |-> Left(pending.updates, d),
                          reads |-> Append(pending.reads,
                                           ProductsPage_getCartItemCount(b))]
    /\ testProducts' = [testProducts EXCEPT !.i = @ + 1]
    /\ last' = "getCartItemCount"
    /\ UNCHANGED <<submitted, failed, hist, call, clearing, files, history>>
    /\ UNCHANGED <<parallel, heap>>

\* The scenario is over; the next one starts from a fresh browser context.
TimedEnd ==
    /\ ~Idle
    /\ browser' = BlankBrowser
    /\ submitted' = NoPair
    /\ failed' = FALSE
    /\ last' = "none"
    /\ testProducts' = NoSample
    /\ pending' = NoPending
    /\ UNCHANGED <<hist, call, clearing, files, history>>
    /\ UNCHANGED <<parallel, heap>>

NextTimed ==
    \/ TimedBeforeEach
    \/ TimedAdd
    \/ TimedWait
    \/ TimedRead
    \/ TimedEnd

SpecTimed == Init /\ [][NextTimed]_vars

----------------------------------------------------------------------------
(* The scenarios of tests/login.spec.js and tests/login-failure.spec.js on  *)
(* the login page, one attempt after the other, with the calls the page     *)
(* receives recorded: after each step of the scenario the record holds the  *)
(* calls of that step.                                                       *)

\* The page before a step: the record starts anew.
Rewound(b) == [b EXCEPT !.trace = [on |-> TRUE, calls |-> <<>>]]

\* The login page as navigateToLogin shows it in a fresh context.
FreshLoginPage == Rewound([BlankBrowser EXCEPT !.location = "index"])

\* The scenario takes the outcome o of the step `name`.
RecordedDo(o, name) ==
    /\ browser' = o.b
    /\ failed' = o.raised
    /\ last' = name
    /\ UNCHANGED <<testProducts, call, clearing, files>>
    /\ UNCHANGED <<parallel, history, pending, heap>>

\* beforeEach: loginPage.navigateToLogin()
RecordedNavigateToLogin ==
    /\ Idle
    /\ RecordedDo(Ok(FreshLoginPage, <<>>), "navigateToLogin")
    /\ UNCHANGED <<submitted, hist>>

\* loginPage.login(username, password); an attempt that stays on the login
\* page is counted.
RecordedLogin ==
    /\ Running
    /\ browser.location = "index"
    /\ Len(hist) < MaxAttempts
    /\ \E pair \in Attempts :
          LET o == login(Rewound(browser), pair[1], pair[2])
          IN  /\ RecordedDo(o, "login")
              /\ submitted' = pair
              /\ hist' = IF o.b.location = "index" THEN Append(hist, "failed") ELSE hist

\* page.click(loginPage.usernameInput), page.click(loginPage.passwordInput)
RecordedClickInput ==
    /\ Running
    /\ browser.location = "index"
    /\ \E selector \in {usernameInput, passwordInput} :
          RecordedDo(Ok(click(Rewound(browser), selector), <<>>), "click")
    /\ UNCHANGED <<submitted, hist>>

RecordedCloseErrorMessage ==
    /\ Running
    /\ browser.location = "index"
    /\ RecordedDo(closeErrorMessage(Rewound(browser)), "closeErrorMessage")
    /\ UNCHANGED <<submitted, hist>>

RecordedClearLoginForm ==
    /\ Running
    /\ browser.location = "index"
    /\ RecordedDo(clearLoginForm(Rewound(browser)), "clearLoginForm")
    /\ UNCHANGED <<submitted, hist>>

\* The scenario is over; the next one starts from a fresh browser context.
RecordedEnd ==
    /\ ~Idle
    /\ RecordedDo(Ok(BlankBrowser, <<>>), "none")
    /\ submitted' = NoPair
    /\ hist' = <<>>

NextRecorded ==
    \/ RecordedNavigateToLogin
    \/ RecordedLogin
    \/ RecordedClickInput
    \/ RecordedCloseErrorMessage
    \/ RecordedClearLoginForm
    \/ RecordedEnd

SpecRecorded == Init /\ [][NextRecorded]_vars

----------------------------------------------------------------------------
(* A scenario of tests/cart-operations.spec.js on the inventory page that   *)
(* adds and removes products by a given name: the names of the fixture and  *)
(* texts that are the name of no product.                                   *)

\* The scenario takes the outcome o of the page action `name`.
LookupDo(o, name) ==
    /\ browser' = o.b
    /\ failed' = o.raised
    /\ last' = name
    /\ UNCHANGED <<submitted, hist, testProducts, call, clearing, files>>
    /\ UNCHANGED <<parallel, history, pending, heap>>

\* beforeEach: navigateToLogin, then login as getValidUsers()[0].
LookupBeforeEach ==
    /\ Idle
    /\ LET fresh == [BlankBrowser EXCEPT !.location = "index"]
           o == login(fresh, getValidUsers[1].username, getValidUsers[1].password)
       IN  /\ browser' = o.b
           /\ failed' = o.raised
    /\ submitted' = Pair(getValidUsers[1])
    /\ last' = "login"
    /\ UNCHANGED <<hist, testProducts, call, clearing, files>>
    /\ UNCHANGED <<parallel, history, pending, heap>>

LookupAdd ==
    /\ Running
    /\ OnProductsPage
    /\ \E productName \in GivenNames :
          LookupDo(addProductToCart(browser, productName), "addProductToCart")

LookupRemove ==
    /\ Running
    /\ OnProductsPage
    /\ \E productName \in GivenNames :
          LookupDo(removeProductFromCart(browser, productName), "removeProductFromCart")

\* The scenario is over; the next one starts from a fresh browser context.
LookupEnd ==
    /\ ~Idle
    /\ LookupDo(Ok(BlankBrowser, <<>>), "none")

NextLookup ==
    \/ LookupBeforeEach
    \/ LookupAdd
    \/ LookupRemove
    \/ LookupEnd

SpecLookup == Init /\ [][NextLookup]_vars

----------------------------------------------------------------------------
(* A scenario of tests/cart-operations.spec.js that adds and removes by     *)
(* index on the inventory page and removes by name and by index on the      *)
(* cart page.                                                                *)

Indices == (0 - 1)..MaxIndex

\* The scenario takes the outcome o of the page action `name`.
IndexedDo(o, name) ==
    /\ browser' = o.b
    /\ failed' = o.raised
    /\ last' = name
    /\ UNCHANGED <<submitted, hist, testProducts, call, clearing, files>>
    /\ UNCHANGED <<parallel, history, pending, heap>>

\* beforeEach: navigateToLogin, then login as getValidUsers()[0].
IndexedBeforeEach ==
    /\ Idle
    /\ LET fresh == [BlankBrowser EXCEPT !.location = "index"]
           o == login(fresh, getValidUsers[1].username, getValidUsers[1].password)
       IN  /\ browser' = o.b
           /\ failed' = o.raised
    /\ submitted' = Pair(getValidUsers[1])
    /\ last' = "login"
    /\ UNCHANGED <<hist, testProducts, call, clearing, files>>
    /\ UNCHANGED <<parallel, history, pending, heap>>

IndexedAdd ==
    /\ Running
    /\ OnProductsPage
    /\ \E index \in Indices :
          IndexedDo(addProductToCartByIndex(browser, index), "addProductToCartByIndex")

IndexedRemove ==
    /\ Running
    /\ OnProductsPage
    /\ \E index \in Indices :
          IndexedDo(removeProductFromCartByIndex(browser, index),
                    "removeProductFromCartByIndex")

IndexedClickShoppingCart ==
    /\ Running
    /\ OnProductsPage
    /\ IndexedDo(clickShoppingCart(browser), "clickShoppingCart")

IndexedContinueShopping ==
    /\ Running
    /\ OnCartPage
    /\ IndexedDo(continueShopping(browser), "continueShopping")

IndexedRemoveItem ==
    /\ Running
    /\ OnCartPage
    /\ \E itemName \in LookupNames :
          IndexedDo(removeItemFromCart(browser, itemName), "removeItemFromCart")

IndexedRemoveItemByIndex ==
    /\ Running
    /\ OnCartPage
    /\ \E index \in Indices :
          IndexedDo(removeItemFromCartByIndex(browser, index), "removeItemFromCartByIndex")

\* The scenario is over; the next one starts from a fresh browser context.
IndexedEnd ==
    /\ ~Idle
    /\ IndexedDo(Ok(BlankBrowser, <<>>), "none")

NextIndexed ==
    \/ IndexedBeforeEach
    \/ IndexedAdd
    \/ IndexedRemove
    \/ IndexedClickShoppingCart
    \/ IndexedContinueShopping
    \/ IndexedRemoveItem
    \/ IndexedRemoveItemByIndex
    \/ IndexedEnd

SpecIndexed == Init /\ [][NextIndexed]_vars

----------------------------------------------------------------------------
(* Scenarios of one worker process that change the records and arrays the   *)
(* accessors hand them.                                                      *)

\* The scenario takes the value an accessor returns.
HeldDo(h) ==
    /\ heap' = h
    /\ UNCHANGED <<browser, submitted, failed, last, hist, testProducts, call,
                   clearing, files>>
    /\ UNCHANGED <<parallel, history, pending>>

HeldGetValidUsers ==
    /\ Len(heap.objects) < MaxLoads
    /\ HeldDo(getValidUsersOn(heap))

HeldGetInvalidUsers ==
    /\ Len(heap.objects) < MaxLoads
    /\ HeldDo(getInvalidUsersOn(heap))

HeldGetProducts ==
    /\ Len(heap.objects) < MaxLoads
    /\ HeldDo(getProductsOn(heap))

\* Math.floor(Math.random() * products.length) is any index of the array.
HeldGetRandomProduct ==
    /\ Len(heap.objects) < MaxLoads
    /\ \E randomIndex \in 0..(Len(getProducts) - 1) :
          HeldDo(getRandomProductOn(heap, randomIndex))

HeldGetRandomProducts ==
    /\ Len(heap.objects) < MaxLoads
    /\ \E count \in 0..MaxHeldProducts :
          \E order \in SortOrders[count] :
              HeldDo(getRandomProductsOn(heap, count, order))

\* The scenario assigns to a field of a record it holds.
HeldAssignField ==
    /\ heap.held.op # "none"
    /\ heap.changes < MaxChanges
    /\ \E i \in 1..Len(HeldValue(heap)) :
          \E field \in DOMAIN HeldValue(heap)[i] :
              heap' = [assignField(heap, i, field) EXCEPT !.changes = @ + 1]
    /\ UNCHANGED <<browser, submitted, failed, last, hist, testProducts, call,
                   clearing, files>>
    /\ UNCHANGED <<parallel, history, pending>>

\* The scenario removes the last element of an array it holds.
HeldPop ==
    /\ heap.held.op \notin {"none", "getRandomProduct"}
    /\ heap.changes < MaxChanges
    /\ Len(HeldValue(heap)) > 0
    /\ heap' = [pop(heap) EXCEPT !.changes = @ + 1]
    /\ UNCHANGED <<browser, submitted, failed, last, hist, testProducts, call,
                   clearing, files>>
    /\ UNCHANGED <<parallel, history, pending>>

\* The scenario is over: what it held is dropped, the process goes on.
HeldNextScenario ==
    /\ heap.held.op # "none"
    /\ heap' = [heap EXCEPT !.held = NoHeld]
    /\ UNCHANGED <<browser, submitted, failed, last, hist, testProducts, call,
                   clearing, files>>
    /\ UNCHANGED <<parallel, history, pending>>

\* The worker process exits and a new one starts.
HeldWorkerExit ==
    /\ heap # NoHeap
    /\ heap' = NoHeap
    /\ UNCHANGED <<browser, submitted, failed, last, hist, testProducts, call,
                   clearing, files>>
    /\ UNCHANGED <<parallel, history, pending>>

NextHeld ==
    \/ HeldGetValidUsers
    \/ HeldGetInvalidUsers
    \/ HeldGetProducts
    \/ HeldGetRandomProduct
    \/ HeldGetRandomProducts
    \/ HeldAssignField
    \/ HeldPop
    \/ HeldNextScenario
    \/ HeldWorkerExit

SpecHeld == Init /\ [][NextHeld]_vars
----------------------------------------------------------------------------
(* Totals of prices, as the pricing scenario computes them                  *)
(* (tests/cart-operations.spec.js): total += currencyToNumber(price).       *)

\* a + b on exact decimals; NaN when either is NaN.
Add(a, b) ==
    IF a.nan \/ b.nan THEN NaN
    ELSE LET s  == Max(a.scale, b.scale)
             ma == a.mant * Pow10(s - a.scale) * (IF a.neg THEN -1 ELSE 1)
             mb == b.mant * Pow10(s - b.scale) * (IF b.neg THEN -1 ELSE 1)
             m  == ma + mb
         IN  IF m < 0 THEN Number(TRUE, 0 - m, s) ELSE Number(FALSE, m, s)

\* let total = 0; for (const price of prices) total += currencyToNumber(price)
RECURSIVE Total(_)
Total(prices) ==
    IF prices = <<>> THEN Number(FALSE, 0, 0)
    ELSE Add(Total(SubSeq(prices, 1, Len(prices) - 1)),
             currencyToNumber(prices[Len(prices)]))

\* The names and the prices of the sampled products, in sampled order.
NamesOf(products) == [k \in 1..Len(products) |-> products[k].name]

PricesOf(products) == [k \in 1..Len(products) |-> products[k].price]

Range(seq) == { seq[k] : k \in 1..Len(seq) }

\* The scenario has added every sampled product and none of its steps raised.
SampleAdded ==
    /\ testProducts.sampled
    /\ testProducts.i = Len(testProducts.items)
    /\ ~failed

----------------------------------------------------------------------------
(* Properties. *)

\* C1: a login with a valid fixture user, started on the login page, returns
\* without raising, leaves the browser on the inventory page and leaves no
\* error message displayed.
C1_ValidLoginReachesInventory ==
    (last = "login" /\ submitted \in ValidPairs) =>
        /\ ~failed
        /\ browser.location = "inventory"
        /\ ~isErrorMessageDisplayed(browser)

C1_Witness ==
    /\ last = "login"
    /\ submitted = Pair(getValidUsers[2])
    /\ browser.location = "inventory"

\* C2: a login with an invalid fixture record leaves the browser on the
\* login page with the error displayed, and getErrorMessage returns the
\* expectedError of that record.
C2_InvalidLoginShowsExpectedError ==
    \A k \in 1..Len(getInvalidUsers) :
        (last = "login" /\ submitted = Pair(getInvalidUsers[k])) =>
            /\ ~failed
            /\ browser.location = "index"
            /\ isErrorMessageDisplayed(browser)
            /\ getErrorMessage(browser) = getInvalidUsers[k].expectedError

C2_Witness ==
    /\ last = "login"
    /\ submitted = Pair(getInvalidUsers[3])
    /\ getErrorMessage(browser) = Msg_UsernameRequired

\* C3: the browser is past the login page only if the last submitted pair
\* is the pair of a valid fixture user; a login with any other pair (SQL
\* injection, XSS, 1000 characters, special characters, locked_out_user, a
\* wrong password) shows an error and stays on the login page.
C3_OnlyValidPairsAuthenticate ==
    /\ OnShop => submitted \in ValidPairs
    /\ (last = "login" /\ submitted \notin ValidPairs) =>
          /\ isErrorMessageDisplayed(browser)
          /\ browser.location = "index"

C3_Witness ==
    /\ last = "login"
    /\ submitted = <<"standard_user", longString>>
    /\ isErrorMessageDisplayed(browser)
    /\ browser.location = "index"

\* C4: after add, remove, add of a product on an empty cart, none raising,
\* the badge count is 1, the cart holds one item, and on the cart page
\* CartPage counts one item whose quantity reads "1".
C4_AddRemoveAddCountsOne ==
    (hist = <<"add", "remove", "add">> /\ ~failed) =>
        /\ ProductsPage_getCartItemCount(browser) = 1
        /\ Len(browser.cart) = 1
        /\ browser.location = "cart" =>
              /\ CartPage_getCartItemCount(browser) = 1
              /\ getCartItemQuantities(browser) = << <<"1">> >>

C4_Witness ==
    /\ hist = <<"add", "remove", "add">>
    /\ browser.location = "cart"
    /\ getCartItemNames(browser) = <<Name_BikeLight>>
    /\ getCartItemQuantities(browser) = << <<"1">> >>

\* C5: once every product of a sample S of getRandomProducts is added to an
\* empty cart, the names the cart page lists are, as a set and without
\* repetition, the names of S, and CartPage counts |S| items.
C5_CartHoldsTheSample ==
    /\ testProducts.sampled => ~failed
    /\ (SampleAdded /\ browser.location = "cart") =>
          /\ Range(getCartItemNames(browser)) = Range(NamesOf(testProducts.items))
          /\ Len(getCartItemNames(browser)) = Len(testProducts.items)
          /\ CartPage_getCartItemCount(browser) = Len(testProducts.items)

C5_Witness ==
    /\ SampleAdded
    /\ browser.location = "cart"
    /\ Len(testProducts.items) = 3
    /\ NamesOf(testProducts.items) = <<Name_Onesie, Name_Backpack, Name_RedTShirt>>
    /\ CartPage_getCartItemCount(browser) = 3

\* C6: in the scenario add three, remove one, clear, the badge count is 3
\* after the third add and 2 after the remove, and after clearCart the cart
\* is empty and the badge is not visible (count 0), on the cart page and
\* back on the inventory page.
C6_CountsThreeTwoZero ==
    /\ (hist = <<"add", "add", "add">> /\ ~failed) =>
          ProductsPage_getCartItemCount(browser) = 3
    /\ (hist = <<"add", "add", "add", "remove">> /\ ~failed) =>
          ProductsPage_getCartItemCount(browser) = 2
    /\ (hist = <<"add", "add", "add", "remove", "clear">> /\ ~failed) =>
          /\ browser.cart = <<>>
          /\ browser.location = "cart" => isCartEmpty(browser)
          /\ ~isCartBadgeVisible(browser)
          /\ ProductsPage_getCartItemCount(browser) = 0

C6_Witness ==
    /\ hist = <<"add", "add", "add", "remove", "clear">>
    /\ last = "continueShopping"
    /\ browser.location = "inventory"
    /\ ~isCartBadgeVisible(browser)

\* C7: getRandomProducts(n), n >= 0, returns min(n, |products|) products,
\* pairwise distinct, each a member of the fixture collection; for
\* n >= |products| it returns the whole collection.
C7_SampleSizeAndMembership ==
    (call.op = "getRandomProducts" /\ call.arg >= 0) =>
        /\ ~call.raised
        /\ Len(call.ret) = Min(call.arg, Len(getProducts))
        /\ \A i, j \in 1..Len(call.ret) : i # j => call.ret[i] # call.ret[j]
        /\ Range(call.ret) \subseteq Range(getProducts)
        /\ call.arg >= Len(getProducts) => Range(call.ret) = Range(getProducts)

C7_Witness ==
    /\ call.op = "getRandomProducts"
    /\ call.arg = MaxCount
    /\ Len(call.ret) = Len(getProducts)
    /\ call.ret # getProducts

\* C8: getRandomProducts leaves the collection it samples from as it was:
\* after the call it holds the same products in the fixture's order, and
\* getProducts returns them in that order.
C8_SamplingKeepsTheCollection ==
    /\ call.op = "getRandomProducts" => call.products = FixtureProducts.products
    /\ call.op = "getProducts" => call.ret = FixtureProducts.products

C8_Witness ==
    /\ call.op = "getRandomProducts"
    /\ call.arg = 2
    /\ call.ret = <<FixtureProducts.products[6], FixtureProducts.products[1]>>
    /\ call.products = FixtureProducts.products

\* The text is "$", one or more digits, ".", two digits.
IsPrice(s) ==
    /\ Len(s) >= 5
    /\ s[1] = "$"
    /\ s[Len(s) - 2] = "."
    /\ \A i \in 2..Len(s) : i # Len(s) - 2 => IsDigit(s[i])

\* The cents a price text stands for.
CentsOfPrice(s) ==
    100 * DigitsValue(s, 2, Len(s) - 4) + DigitsValue(s, Len(s) - 1, 2)

\* The cents of a number, -1 when it is no whole number of cents >= 0.
CentsOfNumber(n) ==
    IF n.nan \/ n.neg \/ n.scale > 2 THEN -1
    ELSE n.mant * Pow10(2 - n.scale)

\* C9: currencyToNumber of a price "$D+.DD" is the number of that price;
\* and for a sample whose products are all in the cart, the total of the
\* fixture prices equals the total of the prices the cart page shows.
C9_PriceParsesToItsValue ==
    /\ (call.op = "currencyToNumber" /\ IsPrice(call.arg)) =>
          /\ ~call.raised
          /\ CentsOfNumber(call.ret) = CentsOfPrice(call.arg)
    /\ (SampleAdded /\ browser.location = "cart") =>
          /\ ~Total(getCartItemPrices(browser)).nan
          /\ Len(getCartItemPrices(browser)) = Len(testProducts.items)
          /\ Total(getCartItemPrices(browser)) = Total(PricesOf(testProducts.items))

C9_Witness ==
    /\ call.op = "currencyToNumber"
    /\ call.arg = Price_2999
    /\ call.ret = [nan |-> FALSE, neg |-> FALSE, mant |-> 2999, scale |-> 2]

\* The text, after an optional leading "$", is digits with an optional
\* fraction of one or more digits.
IsAmount(s) ==
    LET t  == IF s # <<>> /\ s[1] = "$" THEN Tail(s) ELSE s
        n1 == DigitRun(t, 1)
    IN  /\ n1 >= 1
        /\ \/ n1 = Len(t)
           \/ /\ n1 + 1 < Len(t)
              /\ t[n1 + 1] = "."
              /\ DigitRun(t, n1 + 2) = Len(t) - n1 - 1

\* C10: currencyToNumber of a text that is no amount ("free", "", "$",
\* "$12abc", "12$34") raises a format error and returns no number.
C10_MalformedRaises ==
    (call.op = "currencyToNumber" /\ ~IsAmount(call.arg)) => call.raised


\* The key of a name, one character at a time: a white space character
\* gives a hyphen when it starts a run and nothing otherwise, a parenthesis
\* or a period gives nothing, a letter gives its lower case.
RECURSIVE KeyFrom(_, _)
KeyFrom(s, i) ==
    IF i > Len(s) THEN <<>>
    ELSE (IF s[i] \in WhiteSpace
          THEN (IF i > 1 /\ s[i - 1] \in WhiteSpace THEN <<>> ELSE <<"-">>)
          ELSE IF s[i] \in {"(", ")", "."} THEN <<>>
          ELSE <<toLowerChar(s[i])>>)
         \o KeyFrom(s, i + 1)

\* "sauce-labs-bike-light"
Key_BikeLight ==
    <<"s", "a", "u", "c", "e", "-", "l", "a", "b", "s", "-", "b", "i", "k", "e",
      "-", "l", "i", "g", "h", "t">>

\* "testallthethings-t-shirt-red"
Key_RedTShirt ==
    <<"t", "e", "s", "t", "a", "l", "l", "t", "h", "e", "t", "h", "i", "n", "g",
      "s", "-", "t", "-", "s", "h", "i", "r", "t", "-", "r", "e", "d">>

\* C11: productNameToDataTest returns the name lower-cased, every run of
\* white space replaced by one hyphen, every parenthesis and period
\* removed; "Sauce Labs Bike Light" gives "sauce-labs-bike-light" and
\* "Test.allTheThings() T-Shirt (Red)" gives "testallthethings-t-shirt-red".
C11_KeyOfName ==
    call.op = "productNameToDataTest" =>
        /\ ~call.raised
        /\ call.ret = KeyFrom(call.arg, 1)
        /\ call.arg = Name_BikeLight => call.ret = Key_BikeLight
        /\ call.arg = Name_RedTShirt => call.ret = Key_RedTShirt

C11_Witness ==
    /\ call.op = "productNameToDataTest"
    /\ call.arg = <<"S", " ", "\t", "(">>
    /\ call.ret = <<"s", "-">>

\* C12: whatever the adds put in the cart, once clearCart has returned the
\* cart holds no item: on the cart page isCartEmpty is true and
\* CartPage.getCartItemCount is 0, and there and after continueShopping the
\* badge is not visible and ProductsPage.getCartItemCount is 0.
C12_ClearCartEmptiesTheCart ==
    clearing.done =>
        /\ ~failed
        /\ browser.cart = <<>>
        /\ browser.location = "cart" =>
              isCartEmpty(browser) /\ CartPage_getCartItemCount(browser) = 0
        /\ ~isCartBadgeVisible(browser)
        /\ ProductsPage_getCartItemCount(browser) = 0

C12_Witness ==
    /\ clearing.done
    /\ clearing.before = Len(getProducts)
    /\ last = "continueShopping"
    /\ browser.location = "inventory"
    /\ ProductsPage_getCartItemCount(browser) = 0

\* C13: with a fixture file absent, no JSON text, or without its
\* collection, getValidUsers, getInvalidUsers and getProducts fail and
\* return nothing to the caller.
C13_FaultyFixtureFails ==
    ( \/ call.op \in {"getValidUsers", "getInvalidUsers"} /\ files.users # "intact"
      \/ call.op = "getProducts" /\ files.products # "intact" )
    => (call.raised /\ ~call.undefined)

\* C14: a fixture load fails before any scenario starts: no scenario that
\* has navigated, logged in or added has a fixture load fail afterwards.
C14_NoLoadFailureInAScenario ==
    ~(browser.location # "blank" /\ last = "getRandomProducts" /\ failed)

C19_ClearCartTerminates ==
    /\ [](clearing.clicks <= clearing.before)
    /\ [](clearing.active =>
             /\ clearing.clicks + CartPage_getCartItemCount(browser) = clearing.before
             /\ clearCartRound(browser).again =>
                   CartPage_getCartItemCount(clearCartRound(browser).b)
                      < CartPage_getCartItemCount(browser))
    /\ [](clearing.done =>
             /\ Dom(browser, removeButtons) = <<>>
             /\ clearing.clicks = clearing.before)
    /\ [][clearing.active =>
             \/ ~clearing'.active /\ clearing'.done
             \/ CartPage_getCartItemCount(browser')
                   < CartPage_getCartItemCount(browser)]_vars
    /\ [][(clearing.active /\ CartPage_getCartItemCount(browser) = 0)
             => ~clearing'.active]_vars

C19_Witness ==
    /\ clearing.done
    /\ clearing.before = 3
    /\ clearing.clicks = 3
    /\ browser.location = "cart"
    /\ browser.cart = <<>>

----------------------------------------------------------------------------
(* C16 *)

\* The outcome o of a navigation from page b did not raise and shows the
\* same set of products in the cart and the same badge count as b.
CartKept(b, o) ==
    /\ ~o.raised
    /\ Range(o.b.cart) = Range(b.cart)
    /\ ProductsPage_getCartItemCount(o.b) = ProductsPage_getCartItemCount(b)
    /\ isCartBadgeVisible(o.b) = isCartBadgeVisible(b)

\* C16: moving between the inventory page and the cart page with
\* clickShoppingCart, continueShopping or the browser's back button, and
\* reloading the page, leave the cart as it was: from every state a cart
\* scenario reaches, each of these steps ends with the same set of products
\* in the cart and the same badge count.
C16_NavigationKeepsTheCart ==
    (Running /\ CartScenario) =>
        /\ CartKept(browser, clickShoppingCart(browser))
        /\ OnCartPage => CartKept(browser, continueShopping(browser))
        /\ CanGoBack => CartKept(browser, goBack(browser, history))
        /\ CartKept(browser, reload(browser))

\* A scenario has come back from the cart page to the inventory page with
\* the back button, two products in the cart.
C16_Witness ==
    /\ Running /\ OnProductsPage
    /\ last = "goBack"
    /\ Len(browser.cart) = 2
    /\ ProductsPage_getCartItemCount(browser) = 2

----------------------------------------------------------------------------
(* C17 *)

\* The page CartPage.getCartItemCount is read on: the cart page, which a
\* scenario on the inventory page reaches with clickShoppingCart.
CartPageOf(b) == IF b.location = "cart" THEN b ELSE clickShoppingCart(b).b

----------------------------------------------------------------------------
(* C18 *)

\* The selectors of the three page objects, with the buttons of the rows
\* the scenarios look up by name.
PageSelectors ==
    {usernameInput, passwordInput, loginButton, errorMessage, errorCloseButton,
     shoppingCartLink, shoppingCartBadge, cartItems, cartItemNames,
     cartItemPrices, cartQuantities, removeButtons, continueShoppingButton}
    \cup { InventoryItemWith(productName, css) :
              productName \in LookupNames, css \in {".btn_primary", ".btn_secondary"} }

\* C18: on every page a scenario reaches, for every selector that matches no
\* visible element, isElementVisible returns false, and clickElement and
\* fillInput raise and leave the page as it was (no click, no fill); the
\* readers built on isElementVisible return false or an empty value then
\* (isErrorMessageDisplayed, getErrorMessage, isCartBadgeVisible,
\* getCartItemNames, isProductInCart), and the read a reader makes after its
\* check finds the element and does not raise.
C18_ChecksReturnActionsRaise ==
    /\ \A selector \in PageSelectors :
          Dom(browser, selector) = <<>> =>
              /\ ~isElementVisible(browser, selector)
              /\ clickElement(browser, selector).raised
              /\ clickElement(browser, selector).b = browser
              /\ \A value \in {"", "standard_user"} :
                    /\ fillInput(browser, selector, value).raised
                    /\ fillInput(browser, selector, value).b = browser
    /\ Dom(browser, errorMessage) = <<>> =>
          /\ ~isErrorMessageDisplayed(browser)
          /\ getErrorMessage(browser) = <<>>
    /\ Dom(browser, shoppingCartBadge) = <<>> => ~isCartBadgeVisible(browser)
    /\ Dom(browser, cartItemNames) = <<>> => getCartItemNames(browser) = <<>>
    /\ \A productName \in LookupNames :
          Dom(browser, InventoryItemWith(productName, ".btn_secondary")) = <<>>
              => ~isProductInCart(browser, productName)
    /\ isElementVisible(browser, errorMessage)
          => ~getElementText(browser, errorMessage).raised
    /\ (failed /\ last = "addProductToCart") =>
          \E productName \in LookupNames :
              /\ Dom(browser, InventoryItemWith(productName, ".btn_primary")) = <<>>
              /\ addProductToCart(browser, productName) = Raised(browser)

\* The scenario added the backpack twice: the second addProductToCart found
\* no add button in its row, raised and clicked nothing; the readers return
\* false and empty values for what the page does not show.
C18_Witness ==
    /\ failed /\ last = "addProductToCart"
    /\ browser.location = "inventory"
    /\ hist = <<"add">>
    /\ Len(browser.cart) = 1
    /\ isProductInCart(browser, Name_Backpack)
    /\ ~isProductInCart(browser, Name_BikeLight)
    /\ clickElement(browser, InventoryItemWith(Name_Backpack, ".btn_primary")).raised
    /\ getErrorMessage(browser) = <<>>
    /\ ~isErrorMessageDisplayed(browser)

----------------------------------------------------------------------------
(* C20 *)

\* C20: the actions of a scenario follow one another, and after the i-th
\* addProductToCart of distinct products on an empty cart the count the
\* scenario reads before the next add is i, whenever the site shows the
\* effect of the click.
C20_CountReadAfterAddIsI ==
    \A i \in 1..Len(pending.reads) : pending.reads[i] = i

----------------------------------------------------------------------------
(* C29 *)

\* C29: getRandomProducts(n) returns at most max(n, 0) records for every
\* integer n: none for n <= 0.
C29_AtMostRequested ==
    (call.op = "getRandomProducts" /\ ~call.raised) =>
        Len(call.ret) <= Max(call.arg, 0)

----------------------------------------------------------------------------
(* C30 *)

\* C30: productNameToDataTest applied to its own result returns it
\* unchanged; the result holds no upper-case letter, white space,
\* parenthesis or period; the keys of the six product names are pairwise
\* distinct.
C30_KeyIsStable ==
    call.op = "productNameToDataTest" =>
        /\ productNameToDataTest(call.ret) = call.ret
        /\ \A i \in 1..Len(call.ret) :
              /\ call.ret[i] \notin Range(UpperCase)
              /\ call.ret[i] \notin WhiteSpace
              /\ call.ret[i] \notin {"(", ")", "."}
        /\ call.arg \in LookupNames =>
              \A other \in LookupNames \ {call.arg} :
                  productNameToDataTest(other) # call.ret

\* The name with parentheses, periods and capitals gave its key, and the key
\* is the key of itself.
C30_Witness ==
    /\ call.op = "productNameToDataTest"
    /\ call.arg = Name_RedTShirt
    /\ call.ret = Key_RedTShirt
    /\ productNameToDataTest(call.ret) = call.ret
    /\ Cardinality({ productNameToDataTest(n) : n \in LookupNames }) = 6

----------------------------------------------------------------------------
(* C21 *)

\* The calls login(username, password) makes on the page, in order.
LoginCalls(username, password) ==
    << [call |-> "fill",  target |-> "user-name",    value |-> username],
       [call |-> "waitForTimeout", target |-> "",    value |-> "200"],
       [call |-> "fill",  target |-> "password",     value |-> password],
       [call |-> "waitForTimeout", target |-> "",    value |-> "200"],
       [call |-> "click", target |-> "login-button", value |-> ""],
       [call |-> "waitForTimeout", target |-> "",    value |-> "300"],
       [call |-> "waitForTimeout", target |-> "",    value |-> "1000"] >>

\* C21: on the login page, login makes three interactions, fill of the
\* username, fill of the password, click on the login button, in this order,
\* and then its settling wait; it returns without raising and with the same
\* value for every pair of credentials, accepted or not.
C21_LoginIsThreeStepsAndReturns ==
    /\ last = "login" =>
          /\ ~failed
          /\ browser.trace.calls = LoginCalls(submitted[1], submitted[2])
    /\ (Running /\ browser.location = "index") =>
          \A pair \in Attempts :
              /\ ~login(browser, pair[1], pair[2]).raised
              /\ login(browser, pair[1], pair[2]).ret = <<>>

\* An attempt that was refused and one that was accepted made the same calls.
C21_Witness ==
    /\ last = "login"
    /\ submitted = Pair(getValidUsers[1])
    /\ browser.location = "inventory"
    /\ Len(hist) = 1
    /\ Len(browser.trace.calls) = 7
    /\ browser.trace.calls[5].call = "click"

----------------------------------------------------------------------------
(* C25 *)

\* C25: on the login page with the error of a refused attempt displayed, a
\* click on the username or the password field leaves it displayed with the
\* same text, and so does clearLoginForm; closeErrorMessage removes it.
\* With no close button visible, closeErrorMessage makes no call on the
\* page, changes nothing and returns.
C25_ErrorStaysUntilClosed ==
    (Running /\ browser.location = "index") =>
        /\ isErrorMessageDisplayed(browser) =>
              /\ \A selector \in {usernameInput, passwordInput} :
                    /\ isErrorMessageDisplayed(click(browser, selector))
                    /\ getErrorMessage(click(browser, selector)) = getErrorMessage(browser)
              /\ isErrorMessageDisplayed(clearLoginForm(browser).b)
              /\ ~closeErrorMessage(browser).raised
              /\ ~isErrorMessageDisplayed(closeErrorMessage(browser).b)
        /\ ~isElementVisible(browser, errorCloseButton) =>
              closeErrorMessage(Rewound(browser)) = Ok(Rewound(browser), <<>>)
        /\ (last = "click" /\ submitted = <<"invalid_user", "wrong_password">>
              /\ isErrorMessageDisplayed(browser))
              => getErrorMessage(browser) = Msg_NoMatch

\* The error of a refused attempt was closed, and a second closeErrorMessage
\* found no button and made no call.
C25_Witness ==
    /\ Running /\ browser.location = "index"
    /\ last = "closeErrorMessage"
    /\ submitted = <<"invalid_user", "wrong_password">>
    /\ Len(hist) = 1
    /\ browser.trace.calls = <<>>
    /\ ~isErrorMessageDisplayed(browser)

----------------------------------------------------------------------------
(* C26 *)

\* C26: what a login attempt leaves depends on the credentials submitted
\* and not on the attempts before it: after any number of refused attempts,
\* with or without clearLoginForm, closeErrorMessage and clicks in between,
\* the page after login is the page the same login leaves as the first
\* attempt on a fresh login page; an invalid record of the fixture gives its
\* expectedError with the login page loaded, a valid one the inventory page.
C26_OutcomeIsOfTheCredentials ==
    last = "login" =>
        /\ browser = login(FreshLoginPage, submitted[1], submitted[2]).b
        /\ \A k \in 1..Len(getInvalidUsers) :
              submitted = Pair(getInvalidUsers[k]) =>
                  /\ browser.location = "index"
                  /\ isLoginPageLoaded(browser)
                  /\ getErrorMessage(browser) = getInvalidUsers[k].expectedError
        /\ submitted \in ValidPairs => browser.location = "inventory"

\* Two attempts were refused, the form was cleared, and the valid record
\* submitted next reached the inventory page.
C26_Witness ==
    /\ last = "login"
    /\ Len(hist) = MaxAttempts - 1
    /\ submitted = Pair(getValidUsers[1])
    /\ browser.location = "inventory"
    /\ ~failed

----------------------------------------------------------------------------
(* C22 *)

\* The products whose cart membership differs between the pages b and c.
Toggled(b, c) == { i \in Rows : InCart(b, i) # InCart(c, i) }

\* C22: addProductToCart(name) and removeProductFromCart(name) change the
\* cart membership of no product but the one whose display name is name:
\* a product whose name only contains name, or equals it up to letter case,
\* stays as it was.
C22_OnlyTheNamedProductChanges ==
    (Running /\ OnProductsPage) =>
        \A productName \in GivenNames :
            \A i \in Toggled(browser, addProductToCart(browser, productName).b)
                     \cup Toggled(browser, removeProductFromCart(browser, productName).b) :
                SiteInventory[i].name = productName

----------------------------------------------------------------------------
(* C23 *)

\* The given name finds one row of the inventory page, and the row has the
\* control css.
Resolves(b, productName, css) ==
    /\ Cardinality({ i \in Rows : RowMatches(i, productName) }) = 1
    /\ \A i \in Rows : RowMatches(i, productName) => InventoryRowElements(b, i, css) # <<>>

\* C23: when the name finds no row, more than one row, or a row without the
\* button needed (add with the product in the cart, remove with the product
\* not in it), addProductToCart and removeProductFromCart raise and leave
\* the page as it was; when they return, a product was toggled.
C23_NoUniqueRowRaises ==
    (Running /\ OnProductsPage) =>
        \A productName \in GivenNames :
            /\ ~Resolves(browser, productName, ".btn_primary")
                  => addProductToCart(browser, productName) = Raised(browser)
            /\ ~Resolves(browser, productName, ".btn_secondary")
                  => removeProductFromCart(browser, productName) = Raised(browser)
            /\ ~addProductToCart(browser, productName).raised
                  => Toggled(browser, addProductToCart(browser, productName).b) # {}
            /\ ~removeProductFromCart(browser, productName).raised
                  => Toggled(browser, removeProductFromCart(browser, productName).b) # {}

----------------------------------------------------------------------------
(* C24 *)

\* The elements of the sequence s.
Elements(s) == { s[k] : k \in 1..Len(s) }

\* C24: on the cart page with k >= 1 items, removeItemFromCart(name) for a
\* name among getCartItemNames returns with k - 1 items, the name no longer
\* among getCartItemNames, and every other name still among them.
C24_RemoveItemRemovesThatItem ==
    (Running /\ OnCartPage /\ CartPage_getCartItemCount(browser) >= 1) =>
        \A name \in Elements(getCartItemNames(browser)) :
            LET o == removeItemFromCart(browser, name)
            IN  /\ ~o.raised
                /\ CartPage_getCartItemCount(o.b) = CartPage_getCartItemCount(browser) - 1
                /\ name \notin Elements(getCartItemNames(o.b))
                /\ Elements(getCartItemNames(o.b))
                      = Elements(getCartItemNames(browser)) \ {name}

\* removeItemFromCart returned on the cart page, and two items that were
\* not named are still there.
C24_Witness ==
    /\ last = "removeItemFromCart"
    /\ ~failed
    /\ browser.location = "cart"
    /\ CartPage_getCartItemCount(browser) = 2

----------------------------------------------------------------------------
(* C28 *)

\* The page after addProductToCartByIndex(0), ..., addProductToCartByIndex(n - 1).
RECURSIVE AddedUpTo(_, _)
AddedUpTo(b, n) ==
    IF n = 0 THEN Ok(b, <<>>)
    ELSE LET before == AddedUpTo(b, n - 1)
         IN  IF before.raised THEN before
             ELSE addProductToCartByIndex(before.b, n - 1)

\* The index names a row among count rows.
NamesARow(index, count) == 0 <= index /\ index < count

\* C28: the operations by index raise and leave the page as it was for an
\* index that names no row (negative, or not below the row count); for an
\* index in range whose product is already as wanted they return with the
\* cart as it was; adding every index 0..N-1 once gives a cart of N items.
C28_IndexOperations ==
    /\ (Running /\ OnProductsPage) =>
          /\ \A index \in Indices :
                IF ~NamesARow(index, getTotalProductCount(browser))
                THEN /\ addProductToCartByIndex(browser, index) = Raised(browser)
                     /\ removeProductFromCartByIndex(browser, index) = Raised(browser)
                ELSE IF InCart(browser, Dom(browser, inventoryItems)[index + 1].row)
                THEN /\ ~addProductToCartByIndex(browser, index).raised
                     /\ addProductToCartByIndex(browser, index).b.cart = browser.cart
                ELSE /\ ~removeProductFromCartByIndex(browser, index).raised
                     /\ removeProductFromCartByIndex(browser, index).b.cart = browser.cart
          /\ LET all == AddedUpTo(browser, getTotalProductCount(browser))
             IN  /\ ~all.raised
                 /\ ProductsPage_getCartItemCount(all.b) = getTotalProductCount(browser)
                 /\ Len(all.b.cart) = getTotalProductCount(browser)
    /\ (Running /\ OnCartPage) =>
          \A index \in Indices :
              ~NamesARow(index, CartPage_getCartItemCount(browser))
                  => removeItemFromCartByIndex(browser, index) = Raised(browser)

\* addProductToCartByIndex returned and every product of the page is in the
\* cart.
C28_Witness ==
    /\ last = "addProductToCartByIndex"
    /\ ~failed
    /\ browser.location = "inventory"
    /\ Len(browser.cart) = getTotalProductCount(browser)
    /\ getTotalProductCount(browser) = Len(SiteInventory)

----------------------------------------------------------------------------
(* C27 *)

\* The accessor call that leaves the process as h returns what it returns
\* in a process that loaded and changed nothing, as g.
SameReturn(h, g) == HeldValue(h) = HeldValue(g)

\* C27: whatever the scenarios of the process changed in the records and
\* arrays they were handed, every accessor returns what it returns in a
\* fresh process, in an object that none of them was handed.
C27_ReturnsAreCopies ==
    /\ SameReturn(getValidUsersOn(heap), getValidUsersOn(NoHeap))
    /\ SameReturn(getInvalidUsersOn(heap), getInvalidUsersOn(NoHeap))
    /\ SameReturn(getProductsOn(heap), getProductsOn(NoHeap))
    /\ \A randomIndex \in 0..(Len(getProducts) - 1) :
          SameReturn(getRandomProductOn(heap, randomIndex),
                     getRandomProductOn(NoHeap, randomIndex))
    /\ \A count \in 0..MaxHeldProducts :
          \A order \in SortOrders[count] :
              SameReturn(getRandomProductsOn(heap, count, order),
                         getRandomProductsOn(NoHeap, count, order))
    /\ \A filename \in {"users", "products"} :
          loadFixtureOn(heap, filename).id \notin 1..Len(heap.objects)

\* A scenario changed the users it was handed, and getValidUsers called
\* after that returned the users of the fixture.
C27_Witness ==
    /\ Len(heap.objects) = 2
    /\ heap.objects[1].filename = "users"
    /\ heap.objects[1].data # loadFixture("users")
    /\ heap.held = HeldArray("getValidUsers", 2, "validUsers")
    /\ HeldValue(heap) = getValidUsers
====
